---- MODULE Spec2Model ----
(***************************************************************************)
(* A model of the behaviour-tree runtime of behaviortree-rs: the           *)
(* synchronous Sequence / Select nodes, the synchronous BehaviorTree       *)
(* driver with its completion policy, the cooperative-async nodes          *)
(* (Sequence, Select, WhileAll) polled once per executor tick, the Wait,   *)
(* Invert and Loop nodes of both crates driven on their own, the async     *)
(* driver with its controller, trees of nested behaviours in both crates,  *)
(* and the examples' trees of blackboard operations.                       *)
(***************************************************************************)
EXTENDS Integers, Sequences, FiniteSets, TLC

(***************************************************************************)
(* Bounds of the model.                                                    *)
(***************************************************************************)
MaxChildren == 3
MaxRun == 2
MaxTicks == 8
MaxResets == 1
MaxGuards == 2
MaxPayload == 2
MaxPend == 1
MaxLeaves == 2
MaxTarget == 3
MaxDt == 2

(***************************************************************************)
(* Status (status.rs) and Option<Status>.                                  *)
(***************************************************************************)
Success == "Success"
Failure == "Failure"
Running == "Running"
None == "None"

Status == {Success, Failure, Running}
Terminal == {Success, Failure}

(***************************************************************************)
(* Leaf actions used as children.  A leaf is described by the number of    *)
(* ticks it reports Running and the status it reports after them           *)
(* (TestActions::Run { times, output }; times = 0 is the immediate         *)
(* Success / Failure action).                                              *)
(***************************************************************************)
LeafSpecs == [times : 0..MaxRun, output : Terminal]

ChildLists == UNION {[1..n -> LeafSpecs] : n \in 1..MaxChildren}

\* The mock action built from a leaf description: it has been ticked
\* `count` times and halted `halts` times.
NewAction(b) == [spec |-> b, count |-> 0, halts |-> 0]

\* Action::tick of the mock: Running for the first `times` calls, then output.
MockTick(a) ==
    [status |-> IF a.count < a.spec.times THEN Running ELSE a.spec.output,
     action |-> [a EXCEPT !.count = a.count + 1]]

VARIABLES
    variant,                \* "sync" or "async": which crate's node is built
    kind,                   \* "Sequence" or "Select"
    childSpecs,             \* the behaviours the node was constructed from
    behaviors,              \* SequenceState.behaviors: the VecDeque still to run
    status,                 \* SequenceState.status : Option<Status>
    current_action,         \* SequenceState.current_action
    current_action_status,  \* SequenceState.current_action_status
    child_states,           \* SequenceState.child_states (the status of each)
    ticked,                 \* per child: how often its tick was called
    ret,                    \* what the last tick of the node returned
    nticks,                 \* number of ticks of the node / the executor so far
    anode,                  \* the async node (an AsyncChild) and its run future
    aret,                   \* what the spawned task got from anode.run(..).await
    driver,                 \* which BehaviorTree drives the tree ("none": no driver)
    policy,                 \* BehaviorTree.behavior_policy
    tree,                   \* the driver's status and the state of its root
    visits,                 \* how many node ticks the driver has caused so far
    hist,                   \* the statuses of the ticks since new() / reset()
    resets,                 \* number of calls of BehaviorTree::reset so far
    wa,                     \* the async WhileAll node and its pending run
    unit,                   \* a single node of any kind driven on its own
    adrv,                   \* the async driver's future and its controller
    comp,                   \* a tree of nested behaviours and its caller
    calc,                   \* a tree of blackboard operations and its driver
    kids                    \* the Children of a control node and their cursor

nodeVars == <<variant, kind, childSpecs, behaviors, status, current_action,
              current_action_status, child_states, ticked, ret, nticks,
              anode, aret>>

treeVars == <<driver, policy, tree, visits, hist, resets>>

\* The variables of the specifications further down.
extraVars == <<adrv, comp, calc, kids>>

vars == <<nodeVars, treeVars, wa, unit, extraVars>>

(***************************************************************************)
(* The synchronous Sequence and Select nodes (sequence_node.rs,            *)
(* select_node.rs).  `self` is the record of the node's fields.            *)
(***************************************************************************)

\* Box<dyn Action<S>>::from(behavior) and Action::tick of the boxed action,
\* whatever its kind: a mock leaf, an Invert, a Sequence or a Select.
RECURSIVE BoxFrom(_)
RECURSIVE ActionTick(_)

\* SequenceState::new / SelectState::new: the first behaviour becomes the
\* current action, the others stay queued.
NewState(bs) ==
    [behaviors |-> Tail(bs),
     status |-> None,
     current_action |-> BoxFrom(Head(bs)),
     current_action_status |-> None,
     child_states |-> <<None>>]

\* What a tick of a node hands back: the node after the tick, the status
\* returned, and the index of the child that was ticked (0: none).
TickResult(self, st, idx) == [self |-> self, ret |-> st, child |-> idx]

\* A Sequence that does not stop at a failing child: it goes on to the next
\* behaviour after a Failure as it does after a Success.
SequenceStateTickNoStop(self) ==
    IF self.status \in Terminal
    THEN TickResult(self, self.status, 0)
    ELSE LET r == ActionTick(self.current_action)
             child_status == r.status
             idx == Len(self.child_states)
             ticked_self == [self EXCEPT !.current_action = r.action,
                                         !.child_states[idx] = child_status]
         IN IF child_status \in Terminal /\ self.behaviors # <<>>
            THEN TickResult(
                   [ticked_self EXCEPT
                      !.current_action = BoxFrom(Head(self.behaviors)),
                      !.behaviors = Tail(self.behaviors),
                      !.current_action_status = None,
                      !.child_states = Append(@, None),
                      !.status = Running],
                   Running, idx)
            ELSE TickResult(
                   [ticked_self EXCEPT
                      !.current_action_status = child_status,
                      !.status = child_status],
                   child_status, idx)

\* A Sequence that, when a child succeeds, ticks the next child within the
\* same tick instead of returning Running.
SequenceStateTickEager(self) ==
    IF self.status \in Terminal
    THEN TickResult(self, self.status, 0)
    ELSE LET r == ActionTick(self.current_action)
             child_status == r.status
             idx == Len(self.child_states)
             ticked_self == [self EXCEPT !.current_action = r.action,
                                         !.child_states[idx] = child_status]
         IN IF child_status = Success /\ self.behaviors # <<>>
            THEN LET n == ActionTick(BoxFrom(Head(self.behaviors)))
                 IN TickResult(
                      [ticked_self EXCEPT
                         !.current_action = n.action,
                         !.behaviors = Tail(self.behaviors),
                         !.current_action_status = n.status,
                         !.child_states = Append(@, n.status),
                         !.status = IF Tail(self.behaviors) # <<>>
                                       /\ n.status = Success
                                    THEN Running ELSE n.status],
                      IF Tail(self.behaviors) # <<>> /\ n.status = Success
                      THEN Running ELSE n.status,
                      idx)
            ELSE TickResult(
                   [ticked_self EXCEPT
                      !.current_action_status = child_status,
                      !.status = child_status],
                   child_status, idx)

\* SequenceState::tick
SequenceStateTick(self) ==
    IF self.status \in Terminal
    THEN TickResult(self, self.status, 0)
    ELSE LET r == ActionTick(self.current_action)
             child_status == r.status
             idx == Len(self.child_states)
             ticked_self == [self EXCEPT !.current_action = r.action,
                                         !.child_states[idx] = child_status]
         IN IF child_status = Success
            THEN IF self.behaviors # <<>>
                 THEN TickResult(
                        [ticked_self EXCEPT
                           !.current_action = BoxFrom(Head(self.behaviors)),
                           !.behaviors = Tail(self.behaviors),
                           !.current_action_status = None,
                           !.child_states = Append(@, None),
                           !.status = Running],
                        Running, idx)
                 ELSE TickResult(
                        [ticked_self EXCEPT
                           !.current_action_status = child_status,
                           !.status = Success],
                        Success, idx)
            ELSE TickResult(
                   [ticked_self EXCEPT
                      !.current_action_status = child_status,
                      !.status = child_status],
                   child_status, idx)

\* A Select that ticks its current child although it has completed.
SelectStateTickNoCache(self) ==
         LET r == ActionTick(self.current_action)
             child_status == r.status
             idx == Len(self.child_states)
             ticked_self == [self EXCEPT !.current_action = r.action,
                                         !.child_states[idx] = child_status]
         IN IF child_status = Failure
            THEN IF self.behaviors # <<>>
                 THEN TickResult(
                        [ticked_self EXCEPT
                           !.current_action = BoxFrom(Head(self.behaviors)),
                           !.behaviors = Tail(self.behaviors),
                           !.current_action_status = None,
                           !.child_states = Append(@, None),
                           !.status = Running],
                        Running, idx)
                 ELSE TickResult(
                        [ticked_self EXCEPT
                           !.current_action_status = child_status,
                           !.status = Failure],
                        Failure, idx)
            ELSE TickResult(
                   [ticked_self EXCEPT
                      !.current_action_status = child_status,
                      !.status = child_status],
                   child_status, idx)

\* SelectState::tick
SelectStateTick(self) ==
    IF self.status \in Terminal
    THEN TickResult(self, self.status, 0)
    ELSE LET r == ActionTick(self.current_action)
             child_status == r.status
             idx == Len(self.child_states)
             ticked_self == [self EXCEPT !.current_action = r.action,
                                         !.child_states[idx] = child_status]
         IN IF child_status = Failure
            THEN IF self.behaviors # <<>>
                 THEN TickResult(
                        [ticked_self EXCEPT
                           !.current_action = BoxFrom(Head(self.behaviors)),
                           !.behaviors = Tail(self.behaviors),
                           !.current_action_status = None,
                           !.child_states = Append(@, None),
                           !.status = Running],
                        Running, idx)
                 ELSE TickResult(
                        [ticked_self EXCEPT
                           !.current_action_status = child_status,
                           !.status = Failure],
                        Failure, idx)
            ELSE TickResult(
                   [ticked_self EXCEPT
                      !.current_action_status = child_status,
                      !.status = child_status],
                   child_status, idx)

(***************************************************************************)
(* The cooperative-async nodes.  A node is an AsyncChild (its status cell  *)
(* `cell`) around an evaluator, together with the state of its pending run *)
(* future while one exists (`live`).  A future is polled once per executor *)
(* tick: the executor sends the tick's delta and then polls the task.      *)
(*   kind       "Action" (leaf), "Sequence" or "Select"                    *)
(*   n, cells   the children (leaf AsyncChilds) and their status cells     *)
(*   completed  AsyncSequenceState.completed / AsyncSelectState.completed  *)
(*   index, at  where the run future's loop stands: awaiting the run of    *)
(*              child `index` ("child") or the yield_now after it ("yield")*)
(*   pends      how often the leaf being run has returned Pending          *)
(*   cap        how often in a row a leaf may return Pending                *)
(***************************************************************************)
NewNode(k, n) ==
    [kind |-> k, n |-> n, completed |-> FALSE, cell |-> None,
     cells |-> [i \in 1..n |-> None],
     live |-> FALSE, index |-> 0, at |-> "child", pends |-> 0,
     cap |-> MaxRun]

\* What one poll of a future hands back: the node after the poll, whether
\* the future is Ready and with which value, whether it panicked, and
\* whether the leaf was asked for an outcome it cannot give.
PollResult(node, ready, value) ==
    [node |-> node, ready |-> ready, value |-> value,
     panic |-> FALSE, refused |-> FALSE]

PollPanic(node) ==
    [node |-> node, ready |-> FALSE, value |-> FALSE,
     panic |-> TRUE, refused |-> FALSE]

PollRefused(node) ==
    [node |-> node, ready |-> FALSE, value |-> FALSE,
     panic |-> FALSE, refused |-> TRUE]

StatusOf(value) == IF value THEN Success ELSE Failure

\* The outcomes of one poll of a leaf action's run (AsyncActionRunner::run is
\* user code): it stays pending, or returns true or false.  A leaf stays
\* pending at most `cap` polls in a row.
Outcomes == {"pending", "true", "false"}

\* TestRunner::run: Success / Failure return at once; SuccessAfter { times }
\* and FailureAfter { times } consume one delta per poll and return with the
\* times-th one.
TestRunnerRun(spec, pends) ==
    IF spec.times >= 1 /\ pends < spec.times - 1
    THEN "pending"
    ELSE IF spec.output = Success THEN "true" ELSE "false"

\* AsyncChild::run around a leaf (AsyncActionState::run): one poll, in which
\* the action's run gives `want`.
PollAction(node, want) ==
    LET started == [node EXCEPT !.cell = Running, !.live = TRUE,
                                !.pends = IF node.live THEN @ ELSE 0]
    IN IF want = "pending"
       THEN IF started.pends < node.cap
            THEN PollResult([started EXCEPT !.pends = @ + 1], FALSE, FALSE)
            ELSE PollRefused(node)
       ELSE PollResult([started EXCEPT !.cell = StatusOf(want = "true"),
                                       !.live = FALSE],
                       TRUE, want = "true")

\* The child whose run the next poll of a Sequence / Select future polls.
NextIndex(node) ==
    IF ~node.live THEN 1
    ELSE IF node.at = "yield" THEN node.index + 1
    ELSE node.index

\* A control node whose loop never breaks early: it runs every child and
\* returns what the last one returned.
PollControlNoBreak(node, want) ==
    IF ~node.live /\ node.completed
    THEN PollPanic([node EXCEPT !.cell = Running])
    ELSE
    LET i == NextIndex(node)
        first == ~node.live \/ node.at = "yield"
        entered == [node EXCEPT !.cell = Running, !.live = TRUE,
                                !.index = i, !.at = "child",
                                !.pends = IF first THEN 0 ELSE @,
                                !.cells[i] = Running]
    IN IF want = "pending"
       THEN IF entered.pends < node.cap
            THEN PollResult([entered EXCEPT !.pends = @ + 1], FALSE, FALSE)
            ELSE PollRefused(node)
       ELSE LET ran == [entered EXCEPT !.cells[i] = StatusOf(want = "true")]
            IN IF i = node.n
               THEN PollResult(
                      [ran EXCEPT !.completed = TRUE, !.live = FALSE,
                                  !.cell = StatusOf(want = "true")],
                      TRUE, want = "true")
               ELSE PollResult([ran EXCEPT !.at = "yield"], FALSE, FALSE)

\* A control node that does not yield between two children: when a child's
\* result leaves the node undecided, the next child is started within the
\* same poll.
PollControlNoYield(node, want) ==
    IF ~node.live /\ node.completed
    THEN PollPanic([node EXCEPT !.cell = Running])
    ELSE
    LET i == NextIndex(node)
        first == ~node.live \/ node.at = "yield"
        entered == [node EXCEPT !.cell = Running, !.live = TRUE,
                                !.index = i, !.at = "child",
                                !.pends = IF first THEN 0 ELSE @,
                                !.cells[i] = Running]
        decides == IF node.kind = "Sequence" THEN "false" ELSE "true"
    IN IF want = "pending"
       THEN IF entered.pends < node.cap
            THEN PollResult([entered EXCEPT !.pends = @ + 1], FALSE, FALSE)
            ELSE PollRefused(node)
       ELSE LET ran == [entered EXCEPT !.cells[i] = StatusOf(want = "true")]
            IN IF want = decides \/ i = node.n
               THEN PollResult(
                      [ran EXCEPT !.completed = TRUE, !.live = FALSE,
                                  !.cell = StatusOf(want = "true")],
                      TRUE, want = "true")
               ELSE PollResult([ran EXCEPT !.index = i + 1, !.pends = 0,
                                           !.cells[i + 1] = Running],
                               FALSE, FALSE)

\* AsyncChild::run around AsyncSequenceState::run (kind "Sequence") or
\* AsyncSelectState::run (kind "Select"): one poll.  The loop runs child
\* after child; a child's result that decides the node breaks the loop,
\* otherwise the future yields once before the next child.
PollControl(node, want) ==
    IF ~node.live /\ node.completed
    THEN PollPanic([node EXCEPT !.cell = Running])
    ELSE
    LET i == NextIndex(node)
        first == ~node.live \/ node.at = "yield"
        entered == [node EXCEPT !.cell = Running, !.live = TRUE,
                                !.index = i, !.at = "child",
                                !.pends = IF first THEN 0 ELSE @,
                                !.cells[i] = Running]
        decides == IF node.kind = "Sequence" THEN "false" ELSE "true"
    IN IF want = "pending"
       THEN IF entered.pends < node.cap
            THEN PollResult([entered EXCEPT !.pends = @ + 1], FALSE, FALSE)
            ELSE PollRefused(node)
       ELSE LET ran == [entered EXCEPT !.cells[i] = StatusOf(want = "true")]
            IN IF want = decides \/ i = node.n
               THEN PollResult(
                      [ran EXCEPT !.completed = TRUE, !.live = FALSE,
                                  !.cell = StatusOf(want = "true")],
                      TRUE, want = "true")
               ELSE PollResult([ran EXCEPT !.at = "yield"], FALSE, FALSE)

\* AsyncChild::run of any node: one poll.
PollRun(node, want) ==
    IF node.kind = "Action" THEN PollAction(node, want)
    ELSE PollControl(node, want)

\* A reset that leaves `completed` as it is.
ResetNodeKeepsCompleted(node) == node

\* AsyncChild::reset: resets the evaluator (AsyncSequenceState::reset and
\* AsyncSelectState::reset reset every child and clear `completed`; a leaf
\* hands the reset to the runner).  The status cells are left as they are.
ResetNode(node) == [node EXCEPT !.completed = FALSE]

\* A run future that outlives the select! or the join it was polled in.
DropRunKept(node) == node

\* Dropping a run future that has not completed: the future's state goes,
\* the node's fields stay as the last poll left them.
DropRun(node) == [node EXCEPT !.live = FALSE]

\* The node's fields as one record, and their assignment from one.
SyncSelf ==
    [behaviors |-> behaviors,
     status |-> status,
     current_action |-> current_action,
     current_action_status |-> current_action_status,
     child_states |-> child_states]

SetSyncSelf(self) ==
    /\ behaviors' = self.behaviors
    /\ status' = self.status
    /\ current_action' = self.current_action
    /\ current_action_status' = self.current_action_status
    /\ child_states' = self.child_states

\* One call of tick on the node, as the caller sees it.
SyncApply(r) ==
    /\ SetSyncSelf(r.self)
    /\ ret' = r.ret
    /\ ticked' = IF r.child = 0 THEN ticked
                 ELSE [ticked EXCEPT ![r.child] = @ + 1]
    /\ nticks' = nticks + 1
    /\ UNCHANGED <<variant, kind, childSpecs, anode, aret>>
    /\ UNCHANGED <<treeVars, wa, unit, extraVars>>

SequenceTick ==
    /\ variant = "sync"
    /\ kind = "Sequence"
    /\ nticks < MaxTicks
    /\ SyncApply(SequenceStateTick(SyncSelf))

SelectTick ==
    /\ variant = "sync"
    /\ kind = "Select"
    /\ nticks < MaxTicks
    /\ SyncApply(SelectStateTick(SyncSelf))

\* The result of the task `let status = node.run(delta, &mut runner).await`.
TaskResult(r) ==
    IF r.panic THEN "panic"
    ELSE IF ~r.ready THEN "pending"
    ELSE IF r.value THEN "true" ELSE "false"

\* TickedAsyncExecutor::tick while the task that runs the node is alive: the
\* delta is sent and the task is polled once.  The leaves are TestRunner's
\* actions, built from childSpecs.
AsyncTick ==
    /\ variant = "async"
    /\ nticks < MaxTicks
    /\ aret = "pending"
    /\ LET i == NextIndex(anode)
           fresh == ~anode.live \/ anode.at = "yield"
           want == TestRunnerRun(childSpecs[i], IF fresh THEN 0 ELSE anode.pends)
           r == PollRun(anode, want)
       IN /\ ~r.refused
          /\ anode' = r.node
          /\ aret' = TaskResult(r)
          /\ ticked' = [ticked EXCEPT ![i] = @ + 1]
    /\ nticks' = nticks + 1
    /\ UNCHANGED <<variant, kind, childSpecs, behaviors, status, current_action,
                   current_action_status, child_states, ret>>
    /\ UNCHANGED <<treeVars, wa, unit, extraVars>>

\* Nothing of the specifications further down is built.
NoExtras ==
    /\ adrv = <<>>
    /\ comp = <<>>
    /\ calc = <<>>
    /\ kids = <<>>

\* No BehaviorTree is built around the node.
NoTree ==
    /\ driver = "none"
    /\ policy = "none"
    /\ tree = <<>>
    /\ visits = 0
    /\ hist = <<>>
    /\ resets = 0

InitNode ==
    /\ NoTree
    /\ wa = <<>>
    /\ unit = <<>>
    /\ NoExtras
    /\ variant \in {"sync", "async"}
    /\ kind \in {"Sequence", "Select"}
    /\ childSpecs \in ChildLists
    /\ behaviors = NewState(childSpecs).behaviors
    /\ status = NewState(childSpecs).status
    /\ current_action = NewState(childSpecs).current_action
    /\ current_action_status = NewState(childSpecs).current_action_status
    /\ child_states = NewState(childSpecs).child_states
    /\ ticked = [i \in 1..Len(childSpecs) |-> 0]
    /\ ret = None
    /\ nticks = 0
    /\ anode = NewNode(kind, Len(childSpecs))
    /\ aret = "pending"

NextNode ==
    \/ SequenceTick
    \/ SelectTick
    \/ AsyncTick

SpecNode == InitNode /\ [][NextNode]_vars

(***************************************************************************)
(* The synchronous BehaviorTree drivers.  There are two in the repository: *)
(*   "Child"  behaviortree.rs: the driver owns the root Child (its status  *)
(*            cell and its action), tick returns the status;               *)
(*   "State"  behavior_tree.rs: the driver owns the root State and its own *)
(*            status, tick returns nothing and status() is read after it.  *)
(* `tree` is [status, state]: the root's status cell / the driver's status *)
(* and the state of the root node.  The root is a control node over the    *)
(* leaves childSpecs; every tick of a leaf writes the shared data, so      *)
(* `ticked` (per leaf, how often it ran) stands for the shared data.       *)
(***************************************************************************)
ReloadOnCompletion == "ReloadOnCompletion"
RetainOnCompletion == "RetainOnCompletion"

Policies == {ReloadOnCompletion, RetainOnCompletion}

\* What a call into the tree hands back: the tree after it, the status, the
\* leaf that was ticked (0: none) and the number of nodes that were ticked.
TreeResult(t, st, leaf, n) == [tree |-> t, ret |-> st, leaf |-> leaf, visits |-> n]

\* behavior_tree.rs, SequenceState::new (State::from of a Sequence)
NewSequenceState(bs) == [index |-> 0, current_state |-> NewAction(bs[1])]

\* behavior_tree.rs, SequenceState::run_once: the current child is run; on
\* Success the Sequence moves to the next behaviour (Running) or, with none
\* left, succeeds.
SequenceStateRunOnce(st, bs) ==
    LET r == MockTick(st.current_state)
        next_index == st.index + 1
    IN IF r.status = Success /\ next_index < Len(bs)
       THEN [state |-> [index |-> next_index,
                        current_state |-> NewAction(bs[next_index + 1])],
             ret |-> Running, leaf |-> st.index + 1]
       ELSE [state |-> [st EXCEPT !.current_state = r.action],
             ret |-> r.status, leaf |-> st.index + 1]

\* behavior_tree.rs, BehaviorTree::new
NewStateTree(bs) == [status |-> None, state |-> NewSequenceState(bs)]

\* behavior_tree.rs, BehaviorTree::reset: the status is cleared and the state
\* is built again from the behaviour.
StateTreeReset(t, bs) == [status |-> None, state |-> NewSequenceState(bs)]

\* behavior_tree.rs, BehaviorTree::run_once on the root, recording the status
StateTreeRun(t, bs) ==
    LET r == SequenceStateRunOnce(t.state, bs)
    IN TreeResult([status |-> r.ret, state |-> r.state], r.ret, r.leaf, 2)

\* A Reload driver that resets on completion but runs the root only on the
\* next tick.
StateTreeTickLazy(t, pol, bs) ==
    IF t.status \in Terminal
    THEN IF pol = ReloadOnCompletion
         THEN TreeResult(StateTreeReset(t, bs), t.status, 0, 0)
         ELSE TreeResult(t, t.status, 0, 0)
    ELSE StateTreeRun(t, bs)

\* behavior_tree.rs, BehaviorTree::tick followed by status()
StateTreeTick(t, pol, bs) ==
    IF t.status \in Terminal
    THEN IF pol = ReloadOnCompletion
         THEN StateTreeRun(StateTreeReset(t, bs), bs)
         ELSE TreeResult(t, t.status, 0, 0)
    ELSE StateTreeRun(t, bs)

\* behaviortree.rs, BehaviorTree::new: Child::from(behavior), status None
NewChildTree(bs) == [status |-> None, state |-> NewState(bs)]

\* Child::tick: the action is ticked and its status stored in the cell.
ChildTicked(r) ==
    TreeResult([status |-> r.ret, state |-> r.self], r.ret, r.child,
               IF r.child = 0 THEN 1 ELSE 2)

\* Child::tick over the kind of the root node
ChildTick(c, k) ==
    ChildTicked(IF k = "Sequence" THEN SequenceStateTick(c.state)
                ELSE SelectStateTick(c.state))

\* Action::reset of the root control node: it returns to its pre-run state
\* (cursor at the first child, the children reset, no completion recorded).
ActionReset(st, bs) == NewState(bs)

\* A Child whose reset resets the action but leaves the status cell alone.
ChildResetKeepStatus(c, bs) == [status |-> c.status, state |-> ActionReset(c.state, bs)]

\* Child::reset: the action is reset and the cell cleared.
ChildReset(c, bs) == [status |-> None, state |-> ActionReset(c.state, bs)]

\* A driver whose Retain branch does not return early: the root is ticked
\* again although it has completed.
ChildTreeTickReenter(t, pol, bs, k) ==
    IF t.status \in Terminal /\ pol = ReloadOnCompletion
    THEN ChildTick(ChildReset(t, bs), k)
    ELSE ChildTick(t, k)

\* behaviortree.rs, BehaviorTree::tick
ChildTreeTick(t, pol, bs, k) ==
    IF t.status \in Terminal
    THEN IF pol = ReloadOnCompletion
         THEN ChildTick(ChildReset(t, bs), k)
         ELSE TreeResult(t, t.status, 0, 0)
    ELSE ChildTick(t, k)

Drivers == {"Child", "State"}

\* BehaviorTree::new of either driver
NewTree(drv, bs) == IF drv = "Child" THEN NewChildTree(bs) ELSE NewStateTree(bs)

\* BehaviorTree::tick of either driver
BehaviorTreeTick(t, drv, pol, bs, k) ==
    IF drv = "Child" THEN ChildTreeTick(t, pol, bs, k)
    ELSE StateTreeTick(t, pol, bs)

\* BehaviorTree::reset of either driver
BehaviorTreeReset(t, drv, bs) ==
    IF drv = "Child" THEN ChildReset(t, bs) ELSE StateTreeReset(t, bs)

\* BehaviorTree::status of either driver
BehaviorTreeStatus == tree.status

\* The sync node and the async node are not used on their own here.
NoNode ==
    /\ behaviors = <<>>
    /\ status = None
    /\ current_action = <<>>
    /\ current_action_status = None
    /\ child_states = <<>>
    /\ anode = <<>>
    /\ aret = "none"

\* What the caller keeps of one call of tick: the tree, the status returned,
\* the history of statuses, and the counts of the nodes and leaves ticked.
TreeApply(r) ==
    /\ tree' = r.tree
    /\ ret' = r.ret
    /\ hist' = Append(hist, r.ret)
    /\ visits' = visits + r.visits
    /\ ticked' = IF r.leaf = 0 THEN ticked
                 ELSE [ticked EXCEPT ![r.leaf] = @ + 1]

\* tree.tick(dt, shared), the caller keeping what it returned
TreeTick ==
    /\ variant = "tree"
    /\ nticks < MaxTicks
    /\ TreeApply(BehaviorTreeTick(tree, driver, policy, childSpecs, kind))
    /\ nticks' = nticks + 1
    /\ UNCHANGED <<variant, kind, childSpecs, behaviors, status, current_action,
                   current_action_status, child_states, anode, aret,
                   driver, policy, resets, wa, unit, extraVars>>

\* tree.reset()
TreeReset ==
    /\ variant = "tree"
    /\ resets < MaxResets
    /\ tree' = BehaviorTreeReset(tree, driver, childSpecs)
    /\ hist' = <<>>
    /\ resets' = resets + 1
    /\ UNCHANGED <<variant, kind, childSpecs, behaviors, status, current_action,
                   current_action_status, child_states, anode, aret,
                   driver, policy, visits, ticked, ret, nticks, wa,
                   unit, extraVars>>

InitTree ==
    /\ variant = "tree"
    /\ driver \in Drivers
    /\ policy \in Policies
    /\ kind \in (IF driver = "Child" THEN {"Sequence", "Select"} ELSE {"Sequence"})
    /\ childSpecs \in ChildLists
    /\ tree = NewTree(driver, childSpecs)
    /\ NoNode
    /\ ticked = [i \in 1..Len(childSpecs) |-> 0]
    /\ ret = None
    /\ nticks = 0
    /\ visits = 0
    /\ hist = <<>>
    /\ resets = 0
    /\ wa = <<>>
    /\ unit = <<>>
    /\ NoExtras

NextTree ==
    \/ TreeTick
    \/ TreeReset

SpecTree == InitTree /\ [][NextTree]_vars

(***************************************************************************)
(* The async WhileAll node (while_all_node.rs).  Its run builds one        *)
(* handle_child future per guard and one for the payload, in that order,   *)
(* and joins them; the futures share the runner behind a mutex and a       *)
(* cancellation token.  `wa` holds                                         *)
(*   ng         the number of guards; branch ng + 1 is the payload         *)
(*   br         per branch: the child node, where the branch's future      *)
(*              stands (pc), and whether the child has completed a run     *)
(*              (ran) and has been reset since (wasReset)                  *)
(*   holder     the branch that holds the runner mutex (0: free)           *)
(*   queue      the branches waiting for the mutex, in arrival order       *)
(*   cancelled  failure_token has been cancelled                           *)
(*   seen       `cancelled` as it was when the current poll began          *)
(*   result     what the task awaiting the node's run has got              *)
(* and what an observer has recorded about the run:                        *)
(*   failed     the guard whose run returned false (0: none)               *)
(*   lag        executor ticks since that failure (counted up to 2)        *)
(*   late       a child was polled although the token was cancelled        *)
(*   owed       the payload completed a run and has not started the next   *)
(*   wait       executor ticks begun since then (counted up to one more    *)
(*              than WaitBound)                                            *)
(*   stale      a child's run was started again without a reset            *)
(*   refused    a leaf was asked to stay pending beyond its cap            *)
(*   raced      a child was reset while its run was in flight              *)
(***************************************************************************)
\* A leaf action of the WhileAll node, and a Sequence of n of them.
Leaf == [NewNode("Action", 1) EXCEPT !.cap = MaxPend]

LeafSequence(n) == [NewNode("Sequence", n) EXCEPT !.cap = MaxPend]

NewBranch(node) ==
    [node |-> node, pc |-> "lock_run", ran |-> FALSE, wasReset |-> FALSE]

\* AsyncWhileAll::new, and the state of its run before the first poll
NewWhileAll(ng, payload) ==
    [ng |-> ng,
     br |-> [b \in 1..(ng + 1) |->
               IF b <= ng THEN NewBranch(Leaf)
               ELSE NewBranch(payload)],
     holder |-> 0, queue |-> <<>>, cancelled |-> FALSE, seen |-> FALSE,
     result |-> "pending",
     failed |-> 0, lag |-> 0, late |-> FALSE, owed |-> FALSE,
     wait |-> 0, stale |-> FALSE, refused |-> FALSE, raced |-> FALSE]

NumBranches(w) == w.ng + 1

\* The payload waits for the runner behind the guards, each of which holds
\* it for one run: at most MaxPend pending polls and the poll that ends it.
WaitBound(w) == w.ng * (MaxPend + 1)

\* handle_child's allow_failure as if it were true for the payload too.
AllowFailureAll(w, b) == TRUE

\* handle_child's allow_failure as if it were false for every branch.
AllowFailureNone(w, b) == FALSE

\* handle_child's allow_failure: true for the guards, false for the payload
AllowFailure(w, b) == b <= w.ng

\* run_until_cancelled that polls the future before it looks at the token:
\* a cancellation made during a poll is seen only at the next poll.
ObservesCancelLate(w) == w.seen

\* failure_token.run_until_cancelled: the token is looked at first, at
\* every poll of the branch.
ObservesCancel(w) == w.cancelled

\* tokio Mutex, dropping the guard: the mutex goes to the longest waiting
\* branch, if there is one.
Unlock(w, b) ==
    IF w.holder # b THEN w
    ELSE IF w.queue # <<>>
         THEN [w EXCEPT !.holder = Head(w.queue), !.queue = Tail(w.queue)]
         ELSE [w EXCEPT !.holder = 0]

\* A lock that is granted to whoever asks, held or not.
TryLockShared(w, b) == [w EXCEPT !.holder = b]

\* tokio Mutex, one poll of runner.lock(): the branch takes the free mutex,
\* or finds that it was handed the mutex, or waits in the queue.
TryLock(w, b) ==
    IF w.holder = b THEN w
    ELSE IF w.holder = 0 THEN [w EXCEPT !.holder = b]
    ELSE IF \E i \in 1..Len(w.queue) : w.queue[i] = b THEN w
    ELSE [w EXCEPT !.queue = Append(@, b)]

\* Dropping a pending runner.lock(): the branch leaves the queue.
Unqueue(w, b) ==
    [w EXCEPT !.queue = SelectSeq(@, LAMBDA x : x # b)]

\* run_until_cancelled returns None: the branch's future is dropped, with
\* its mutex guard or its place in the queue.
DropBranch(w, b) ==
    LET w1 == Unlock(Unqueue(w, b), b)
    IN [w1 EXCEPT !.br[b].pc = "done", !.br[b].node = DropRun(@)]

\* A handle_child loop that does not reset the child before it runs again.
ChildResetSkipped(w, b) == w

\* handle_child, `child.reset(*runner_lock)` under the mutex
ChildResetStep(w, b) ==
    [w EXCEPT !.br[b].node = ResetNode(@), !.br[b].wasReset = TRUE,
              !.raced = @ \/ w.br[b].node.live]

\* handle_child, `child.run(delta.clone(), *runner_lock).await` under the
\* mutex, one poll in which the leaf reached gives outcome o; then the
\* mutex is released and the branch either ends (a guard that failed
\* cancels the token) or yields.
RunStep(w, b, o) ==
    LET me == w.br[b]
        starts == ~me.node.live
        r == PollRun(me.node, o)
        w0 == [w EXCEPT !.late = @ \/ w.cancelled,
                        !.stale = @ \/ (starts /\ me.ran /\ ~me.wasReset),
                        !.owed = IF starts /\ b = w.ng + 1 THEN FALSE ELSE @,
                        !.wait = IF starts /\ b = w.ng + 1 THEN 0 ELSE @]
    IN IF r.refused THEN [w EXCEPT !.refused = TRUE]
       ELSE IF r.panic
       THEN [w0 EXCEPT !.br[b].node = r.node, !.result = "panic"]
       ELSE IF ~r.ready
       THEN [w0 EXCEPT !.br[b].node = r.node, !.br[b].pc = "run"]
       ELSE LET w1 == Unlock([w0 EXCEPT !.br[b].node = r.node,
                                        !.br[b].ran = TRUE,
                                        !.br[b].wasReset = FALSE,
                                        !.owed = IF b = w.ng + 1 THEN TRUE ELSE @,
                                        !.wait = IF b = w.ng + 1 THEN 0 ELSE @],
                             b)
            IN IF AllowFailure(w, b) /\ ~r.value
               THEN [w1 EXCEPT !.cancelled = TRUE,
                               !.br[b].pc = "done",
                               !.failed = IF @ = 0 THEN b ELSE @]
               ELSE [w1 EXCEPT !.br[b].pc = "yield"]

\* handle_child from `runner.lock().await` before the run
LockRunStep(w, b, o) ==
    LET w1 == TryLock(w, b)
    IN IF w1.holder = b THEN RunStep(w1, b, o)
       ELSE [w1 EXCEPT !.br[b].pc = "lock_run"]

\* handle_child from the end of yield_now: the mutex is taken, the child
\* reset, the mutex released, and the loop starts over.
LockResetStep(w, b, o) ==
    LET w1 == TryLock(w, b)
    IN IF w1.holder = b
       THEN LockRunStep(Unlock(ChildResetStep(w1, b), b), b, o)
       ELSE [w1 EXCEPT !.br[b].pc = "lock_reset"]

\* One poll of a handle_child future.
HandleChildPoll(w, b, o) ==
    IF w.br[b].pc = "done" \/ w.result = "panic" THEN w
    ELSE IF ObservesCancel(w) THEN DropBranch(w, b)
    ELSE IF w.br[b].pc = "lock_run" THEN LockRunStep(w, b, o)
    ELSE IF w.br[b].pc = "run" THEN RunStep(w, b, o)
    ELSE LockResetStep(w, b, o)

\* One poll of a handle_child future, for each outcome the leaf reached
\* can give.
HandleChildPolls(w, b) ==
    {x \in {HandleChildPoll(w, b, o) : o \in Outcomes} : ~x.refused}

\* A join that polls its futures from the last one to the first.
RECURSIVE JoinAllPollsReversed(_, _, _)
JoinAllPollsReversed(ws, b, n) ==
    IF b > n THEN ws
    ELSE JoinAllPollsReversed(
           UNION {HandleChildPolls(w, n + 1 - b) : w \in ws}, b + 1, n)

\* join_all over n futures: one poll polls every branch that has not
\* finished, in order, from branch b on.  ws are the states the node can be
\* in before branch b is polled.
RECURSIVE JoinAllPolls(_, _, _)
JoinAllPolls(ws, b, n) ==
    IF b > n THEN ws
    ELSE JoinAllPolls(UNION {HandleChildPolls(w, b) : w \in ws}, b + 1, n)

Min(a, b) == IF a < b THEN a ELSE b

\* AsyncWhileAll::run, one poll: when every branch has finished, it
\* returns false.
WhileAllPolls(w) ==
    LET w0 == [w EXCEPT !.seen = w.cancelled,
                        !.lag = IF w.failed # 0 THEN Min(@ + 1, 2) ELSE @,
                        !.wait = IF w.owed THEN Min(@ + 1, WaitBound(w) + 1) ELSE @]
    IN {IF w1.result = "pending"
           /\ \A b \in 1..NumBranches(w1) : w1.br[b].pc = "done"
        THEN [w1 EXCEPT !.result = "false"]
        ELSE w1 : w1 \in JoinAllPolls({w0}, 1, NumBranches(w))}

\* AsyncWhileAll::reset followed by a new run of the node: every guard and
\* the payload are reset; the run starts with a new token and a new mutex.
WhileAllRestart(w) ==
    [NewWhileAll(w.ng, w.br[w.ng + 1].node) EXCEPT
       !.br = [b \in 1..(w.ng + 1) |->
                 [NewBranch(ResetNode(w.br[b].node)) EXCEPT
                    !.ran = w.br[b].ran, !.wasReset = TRUE]],
       !.raced = w.raced \/ \E b \in 1..(w.ng + 1) : w.br[b].node.live]

\* The payloads: a leaf action, or a Sequence of leaf actions.
Payloads == {Leaf} \cup {LeafSequence(n) : n \in 1..MaxPayload}

\* TickedAsyncExecutor::tick while the task running the node is alive: the
\* task is polled once; each leaf reached gives an outcome of its choice.
WhileAllTick ==
    /\ variant = "whileall"
    /\ wa.result = "pending"
    /\ \E w \in WhileAllPolls(wa) : wa' = w
    /\ UNCHANGED <<nodeVars, driver, policy, tree, visits, hist, resets, unit, extraVars>>

\* The parent resets the node after it returned and runs it again.
WhileAllRerun ==
    /\ variant = "whileall"
    /\ wa.result = "false"
    /\ resets < MaxResets
    /\ wa' = WhileAllRestart(wa)
    /\ resets' = resets + 1
    /\ UNCHANGED <<nodeVars, driver, policy, tree, visits, hist, unit, extraVars>>

InitWhileAll ==
    /\ variant = "whileall"
    /\ kind = "WhileAll"
    /\ childSpecs = <<>>
    /\ NoNode
    /\ ticked = <<>>
    /\ ret = None
    /\ nticks = 0
    /\ NoTree
    /\ \E ng \in 1..MaxGuards : \E p \in Payloads : wa = NewWhileAll(ng, p)
    /\ unit = <<>>
    /\ NoExtras

NextWhileAll ==
    \/ WhileAllTick
    \/ WhileAllRerun

SpecWhileAll == InitWhileAll /\ [][NextWhileAll]_vars

(***************************************************************************)
(* Single nodes driven on their own: the synchronous Child (child.rs)      *)
(* around a Wait, a Loop, an immediate action or a Sequence, the           *)
(* synchronous Invert, and the AsyncChild around an action, a Wait, an     *)
(* Invert, a Sequence, a Select or a Loop.  Every tick carries the same    *)
(* delta `dt`.                                                             *)
(***************************************************************************)

\* WaitState::new
NewWaitState(target) == [kind |-> "Wait", target |-> target, elapsed |-> 0]

\* A Wait that needs more than the target: `elapsed > target` instead of >=.
WaitStateTickStrict(a, dt) ==
    IF a.elapsed >= a.target
    THEN [action |-> a, ret |-> "panic"]
    ELSE LET e == a.elapsed + dt
         IN [action |-> [a EXCEPT !.elapsed = e],
             ret |-> IF e > a.target THEN Success ELSE Running]

\* WaitState::tick: unreachable!() when the target has been reached already
WaitStateTick(a, dt) ==
    IF a.elapsed >= a.target
    THEN [action |-> a, ret |-> "panic"]
    ELSE LET e == a.elapsed + dt
         IN [action |-> [a EXCEPT !.elapsed = e],
             ret |-> IF e >= a.target THEN Success ELSE Running]

\* InvertState::new around a leaf action
NewInvertState(b) ==
    [kind |-> "Invert", status |-> None,
     current_action |-> BoxFrom(b), current_action_status |-> None]

\* An Invert that hands its child's status on as it is.
InvertStateTickSame(a) ==
    IF a.status \in Terminal
    THEN [action |-> a, ret |-> a.status]
    ELSE LET r == ActionTick(a.current_action)
         IN [action |-> [a EXCEPT !.current_action = r.action,
                                  !.current_action_status = r.status,
                                  !.status = r.status],
             ret |-> r.status]

\* An Invert that takes a child that is still Running for a failed one.
InvertStateTickNoRunning(a) ==
    IF a.status \in Terminal
    THEN [action |-> a, ret |-> a.status]
    ELSE LET r == ActionTick(a.current_action)
             child_status == r.status
             st == IF child_status = Success THEN Failure ELSE Success
         IN [action |-> [a EXCEPT !.current_action = r.action,
                                  !.current_action_status = child_status,
                                  !.status = st],
             ret |-> st]

\* InvertState::tick
InvertStateTick(a) ==
    IF a.status \in Terminal
    THEN [action |-> a, ret |-> a.status]
    ELSE LET r == ActionTick(a.current_action)
             child_status == r.status
             st == IF child_status = Success THEN Failure
                   ELSE IF child_status = Failure THEN Success
                   ELSE Running
         IN [action |-> [a EXCEPT !.current_action = r.action,
                                  !.current_action_status = child_status,
                                  !.status = st],
             ret |-> st]

\* What is left of a constructor that panicked.
Panicked == [kind |-> "panic"]

IsMock(a) == "spec" \in DOMAIN a

IsPanicked(a) == ~IsMock(a) /\ a.kind = "panic"

\* Box::from(behavior): the action of the behaviour's kind is constructed.
\* SequenceState::new and SelectState::new assert that there is a behaviour;
\* a panic in the construction of the first child is the parent's panic.
BoxFrom(b) ==
    IF "kind" \notin DOMAIN b THEN NewAction(b)
    ELSE IF b.kind = "Invert"
    THEN LET a == NewInvertState(b.child)
         IN IF IsPanicked(a.current_action) THEN Panicked ELSE a
    ELSE IF b.kind \in {"Sequence", "Select"}
    THEN IF b.children = <<>> THEN Panicked
         ELSE LET s == NewState(b.children)
              IN IF IsPanicked(s.current_action) THEN Panicked
                 ELSE [kind |-> b.kind, self |-> s]
    ELSE Panicked

\* Action::tick through the box.  A control node whose next child could not
\* be constructed has panicked in the tick that constructs it.
ActionTick(a) ==
    IF IsMock(a) THEN MockTick(a)
    ELSE IF a.kind = "panic" THEN [status |-> "panic", action |-> a]
    ELSE IF a.kind = "Invert"
    THEN LET r == InvertStateTick(a)
         IN [status |-> r.ret, action |-> r.action]
    ELSE LET r == IF a.kind = "Sequence" THEN SequenceStateTick(a.self)
                  ELSE SelectStateTick(a.self)
         IN IF IsPanicked(r.self.current_action)
            THEN [status |-> "panic", action |-> Panicked]
            ELSE [status |-> r.ret, action |-> [a EXCEPT !.self = r.self]]

\* Action::halt of the mock
MockHalt(a) == [a EXCEPT !.halts = @ + 1]

RECURSIVE ActionHalt(_)

\* A halt that leaves the node's own status as it is.
SequenceStateHaltKeepsStatus(self) ==
    IF self.current_action_status = Running
    THEN [self EXCEPT
            !.current_action = ActionHalt(self.current_action),
            !.current_action_status = None,
            !.child_states[Len(self.child_states)] = None]
    ELSE self

\* SequenceState::halt: a running child is halted and its recorded status
\* cleared; the node's status is cleared; the current action and the queue
\* stay.
SequenceStateHalt(self) ==
    IF self.current_action_status = Running
    THEN [self EXCEPT
            !.current_action = ActionHalt(self.current_action),
            !.current_action_status = None,
            !.child_states[Len(self.child_states)] = None,
            !.status = None]
    ELSE [self EXCEPT !.status = None]

\* SelectState::halt
SelectStateHalt(self) ==
    IF self.current_action_status = Running
    THEN [self EXCEPT
            !.current_action = ActionHalt(self.current_action),
            !.current_action_status = None,
            !.child_states[Len(self.child_states)] = None,
            !.status = None]
    ELSE [self EXCEPT !.status = None]

\* InvertState::halt
InvertStateHalt(a) ==
    IF a.current_action_status = Running
    THEN [a EXCEPT !.current_action = ActionHalt(a.current_action),
                   !.current_action_status = None,
                   !.status = None]
    ELSE [a EXCEPT !.status = None]

\* Action::halt through the box
ActionHalt(a) ==
    IF IsMock(a) THEN MockHalt(a)
    ELSE IF a.kind = "panic" THEN a
    ELSE IF a.kind = "Invert" THEN InvertStateHalt(a)
    ELSE IF a.kind = "Sequence"
    THEN [a EXCEPT !.self = SequenceStateHalt(a.self)]
    ELSE [a EXCEPT !.self = SelectStateHalt(a.self)]

\* An immediate action (ActionType::Immediate) that returns `output`.
NewImmediate(output) == [kind |-> "Leaf", output |-> output]

\* A Sequence of scripted leaves as the action of a Child.
NewSequenceAction(bs) == [kind |-> "Sequence", bs |-> bs, st |-> NewState(bs)]

\* Child::new (child.rs): the status cell starts as None.
NewSyncChild(action) == [cell |-> None, action |-> action]

\* LoopState::new
NewLoopState(child) == [kind |-> "Loop", child |-> child]

RECURSIVE SyncActionTick(_, _)
RECURSIVE SyncActionReset(_)

\* Child::tick (child.rs), given what the action's tick returned: the status
\* cell is set.
SyncChildTicked(c, r) ==
    IF r.ret = "panic"
    THEN [child |-> c, ret |-> "panic"]
    ELSE [child |-> [cell |-> r.ret, action |-> r.action], ret |-> r.ret]

\* Child::tick (child.rs): the action is ticked and the status cell set.
SyncChildTick(c, dt) == SyncChildTicked(c, SyncActionTick(c.action, dt))

\* Child::reset (child.rs): the action is reset; the status cell is not
\* written.
SyncChildReset(c) == [c EXCEPT !.action = SyncActionReset(c.action)]

\* A Loop that reports what its child reported.
LoopStateTickChild(a, dt) ==
    LET c == IF a.child.cell \in Terminal THEN SyncChildReset(a.child)
             ELSE a.child
        r == SyncChildTick(c, dt)
    IN IF r.ret = "panic"
       THEN [action |-> a, ret |-> "panic"]
       ELSE [action |-> [a EXCEPT !.child = r.child], ret |-> r.ret]

\* A Loop that ticks its child again without resetting it first.
LoopStateTickNoReset(a, dt) ==
    LET r == SyncChildTick(a.child, dt)
    IN IF r.ret = "panic"
       THEN [action |-> a, ret |-> "panic"]
       ELSE [action |-> [a EXCEPT !.child = r.child], ret |-> Running]

\* LoopState::tick: a child that has completed is reset, the child is
\* ticked, and Running is returned whatever the child returned.
LoopStateTick(a, dt) ==
    LET c == IF a.child.cell \in Terminal THEN SyncChildReset(a.child)
             ELSE a.child
        r == SyncChildTick(c, dt)
    IN IF r.ret = "panic"
       THEN [action |-> a, ret |-> "panic"]
       ELSE [action |-> [a EXCEPT !.child = r.child], ret |-> Running]

\* ActionType::tick (sync crate) over the node kinds.
SyncActionTick(a, dt) ==
    IF a.kind = "Leaf" THEN [action |-> a, ret |-> a.output]
    ELSE IF a.kind = "Wait" THEN WaitStateTick(a, dt)
    ELSE IF a.kind = "Invert" THEN InvertStateTick(a)
    ELSE IF a.kind = "Loop" THEN LoopStateTick(a, dt)
    ELSE LET r == SequenceStateTick(a.st)
         IN [action |-> [a EXCEPT !.st = r.self], ret |-> r.ret]

\* ActionType::reset (sync crate) over the node kinds: WaitState::reset,
\* LoopState::reset, the immediate action's reset (nothing to reset), and
\* the Sequence's return to its constructed state.
SyncActionReset(a) ==
    IF a.kind = "Wait" THEN [a EXCEPT !.elapsed = 0]
    ELSE IF a.kind = "Loop" THEN [a EXCEPT !.child = SyncChildReset(a.child)]
    ELSE IF a.kind = "Sequence" THEN [a EXCEPT !.st = ActionReset(a.st, a.bs)]
    ELSE a

\* An AsyncChild around a node of kind k with n leaf children; `target` and
\* `elapsed` are AsyncWaitState's fields (0 for the other kinds).
NewUnitNode(k, n, target) ==
    [kind |-> k, n |-> n, completed |-> FALSE, cell |-> None,
     cells |-> [i \in 1..n |-> None],
     live |-> FALSE, index |-> 0, at |-> "child", pends |-> 0,
     cap |-> MaxRun, target |-> target, elapsed |-> 0]

\* AsyncChild::run around AsyncWaitState::run: one poll.  The tick's delta
\* is added; the run returns true when the target is reached, otherwise it
\* yields until the next tick.  Nothing refuses a run after a completed one.
PollWait(node, dt) ==
    LET started == [node EXCEPT !.cell = Running, !.live = TRUE,
                                !.elapsed = @ + dt]
    IN IF started.elapsed >= node.target
       THEN PollResult([started EXCEPT !.cell = Success, !.live = FALSE],
                       TRUE, TRUE)
       ELSE PollResult(started, FALSE, FALSE)

\* An async Invert that hands its child's result on as it is.
PollInvertSame(node, want) ==
    IF ~node.live /\ node.completed
    THEN PollPanic([node EXCEPT !.cell = Running])
    ELSE
    LET started == [node EXCEPT !.cell = Running, !.live = TRUE,
                                !.index = 1,
                                !.pends = IF node.live THEN @ ELSE 0,
                                !.cells[1] = Running]
    IN IF want = "pending"
       THEN IF started.pends < node.cap
            THEN PollResult([started EXCEPT !.pends = @ + 1], FALSE, FALSE)
            ELSE PollRefused(node)
       ELSE PollResult(
              [started EXCEPT !.cells[1] = StatusOf(want = "true"),
                              !.completed = TRUE, !.live = FALSE,
                              !.cell = StatusOf(want = "true")],
              TRUE, want = "true")

\* AsyncChild::run around AsyncInvertState::run: one poll, in which the
\* child's action gives `want`.
PollInvert(node, want) ==
    IF ~node.live /\ node.completed
    THEN PollPanic([node EXCEPT !.cell = Running])
    ELSE
    LET started == [node EXCEPT !.cell = Running, !.live = TRUE,
                                !.index = 1,
                                !.pends = IF node.live THEN @ ELSE 0,
                                !.cells[1] = Running]
    IN IF want = "pending"
       THEN IF started.pends < node.cap
            THEN PollResult([started EXCEPT !.pends = @ + 1], FALSE, FALSE)
            ELSE PollRefused(node)
       ELSE PollResult(
              [started EXCEPT !.cells[1] = StatusOf(want = "true"),
                              !.completed = TRUE, !.live = FALSE,
                              !.cell = StatusOf(want # "true")],
              TRUE, want # "true")

\* The child whose run the next poll of a Loop future polls: after the
\* yield that follows a failed child or the last child, the children are
\* reset and the loop starts over with the first one.
LoopIndex(node) ==
    IF ~node.live THEN 1
    ELSE IF node.at = "yield"
         THEN IF node.cells[node.index] = Failure \/ node.index = node.n
              THEN 1 ELSE node.index + 1
         ELSE node.index

\* AsyncChild::run around AsyncLoopState::run: one poll.  The run never
\* returns.
PollLoop(node, want) ==
    LET i == LoopIndex(node)
        first == ~node.live \/ node.at = "yield"
        entered == [node EXCEPT !.cell = Running, !.live = TRUE,
                                !.index = i, !.at = "child",
                                !.pends = IF first THEN 0 ELSE @,
                                !.cells[i] = Running]
    IN IF want = "pending"
       THEN IF entered.pends < node.cap
            THEN PollResult([entered EXCEPT !.pends = @ + 1], FALSE, FALSE)
            ELSE PollRefused(node)
       ELSE PollResult([entered EXCEPT !.cells[i] = StatusOf(want = "true"),
                                       !.at = "yield"],
                       FALSE, FALSE)

\* An AsyncChild::run that writes the status cell only when the action's run
\* has returned.
AsyncChildRunNoRunning(node, want, dt) ==
    LET r == IF node.kind = "Wait" THEN PollWait(node, dt)
             ELSE IF node.kind = "Invert" THEN PollInvert(node, want)
             ELSE IF node.kind = "Loop" THEN PollLoop(node, want)
             ELSE PollRun(node, want)
    IN IF r.ready THEN r ELSE [r EXCEPT !.node.cell = node.cell]

\* AsyncChild::run over the node kinds: one poll.
AsyncChildRun(node, want, dt) ==
    IF node.kind = "Wait" THEN PollWait(node, dt)
    ELSE IF node.kind = "Invert" THEN PollInvert(node, want)
    ELSE IF node.kind = "Loop" THEN PollLoop(node, want)
    ELSE PollRun(node, want)

\* An AsyncChild::reset that leaves a Wait's elapsed time as it is.
AsyncChildResetKeepsElapsed(node) == ResetNode(node)

\* AsyncChild::reset over the node kinds: AsyncWaitState::reset clears the
\* elapsed time; the others clear `completed` and reset their children.
\* The status cell is not written.
AsyncChildReset(node) ==
    IF node.kind = "Wait" THEN [node EXCEPT !.elapsed = 0]
    ELSE ResetNode(node)

\* The leaf that the next poll of the node reaches, and whether that poll
\* starts a run of it.
UnitLeafIndex(node) ==
    IF node.kind \in {"Sequence", "Select"} THEN NextIndex(node)
    ELSE IF node.kind = "Loop" THEN LoopIndex(node)
    ELSE 1

UnitLeafFresh(node) ==
    \/ ~node.live
    \/ node.kind \in {"Sequence", "Select", "Loop"} /\ node.at = "yield"

\* What the leaf reached by the next poll gives (TestRunner's actions).
UnitWant(u) ==
    IF u.node.kind = "Wait" THEN "true"
    ELSE TestRunnerRun(u.leaves[UnitLeafIndex(u.node)],
                       IF UnitLeafFresh(u.node) THEN 0 ELSE u.node.pends)

(***************************************************************************)
(* `unit` holds the node and what its caller has seen of it:               *)
(*   mode        "sync" (ticked by its caller) or "async" (its run is      *)
(*               awaited by a task that the executor polls once per tick)  *)
(*   node        the Child / AsyncChild                                    *)
(*   dt          the delta of every tick                                   *)
(*   leaves      the scripts of the async node's leaf actions              *)
(*   t           ticks so far                                              *)
(*   out         sync: what the last tick returned; async: what the task   *)
(*               has got from the current run ("pending": nothing yet)     *)
(*   polls       ticks since the current run began / since the last reset  *)
(*   runs        1 for the first run, + 1 for every later one              *)
(*   clean       the current run began on a new or freshly reset node      *)
(*   prev        how the run before the current one ended                  *)
(*   first       the result of the first run and the ticks it took         *)
(*   afterReset  what the status cell read right after the last reset      *)
(***************************************************************************)
NewUnit(mode, node, dt, leaves) ==
    [mode |-> mode, node |-> node, dt |-> dt, leaves |-> leaves, t |-> 0,
     out |-> IF mode = "sync" THEN None ELSE "pending",
     polls |-> 0, runs |-> 1, clean |-> TRUE, prev |-> "none",
     first |-> <<>>, afterReset |-> "n/a"]

UnitLeafLists == UNION {[1..n -> LeafSpecs] : n \in 1..MaxLeaves}

\* Behavior::WhileAll(conditions, child)
WhileAllOf(conds, child) ==
    [kind |-> "WhileAll", conditions |-> conds, child |-> child]

\* Child::from_behavior_with_state_and_status (child.rs) for an action, a
\* Wait, an Invert, a Sequence and a WhileAll; the WhileAll arm is `todo!()`,
\* which panics.
SyncChildFromBehavior(b) ==
    IF "kind" \notin DOMAIN b THEN NewSyncChild(NewImmediate(b.output))
    ELSE IF b.kind = "Wait" THEN NewSyncChild(NewWaitState(b.target))
    ELSE IF b.kind = "Invert" THEN NewSyncChild(NewInvertState(b.child))
    ELSE IF b.kind = "Sequence"
    THEN NewSyncChild(NewSequenceAction(b.children))
    ELSE NewSyncChild(Panicked)

\* The caller of Child::from_behavior with a WhileAll behaviour over the
\* leaf actions `leaves` (the guards, then the payload).
SyncUnitFrom(b, leaves) ==
    [NewUnit("sync", SyncChildFromBehavior(b), 1, leaves) EXCEPT
       !.out = IF SyncChildFromBehavior(b).action.kind = "panic"
               THEN "panic" ELSE None]

\* The guards of a WhileAll: immediate checks.
GuardLists ==
    UNION {[1..n -> {b \in LeafSpecs : b.times = 0}] : n \in 1..MaxGuards}

SyncUnits ==
    {NewUnit("sync", NewSyncChild(NewWaitState(target)), dt, <<>>) :
        target \in 0..MaxTarget, dt \in 0..MaxDt}
    \cup {NewUnit("sync", NewSyncChild(NewInvertState(b)), 1, <<>>) :
            b \in LeafSpecs}
    \cup {NewUnit("sync",
                  NewSyncChild(NewLoopState(NewSyncChild(NewImmediate(o)))),
                  1, <<>>) : o \in Terminal}
    \cup {NewUnit("sync",
                  NewSyncChild(NewLoopState(NewSyncChild(NewWaitState(target)))),
                  dt, <<>>) : target \in 1..MaxTarget, dt \in 0..MaxDt}
    \cup {NewUnit("sync",
                  NewSyncChild(NewLoopState(NewSyncChild(NewSequenceAction(bs)))),
                  1, <<>>) : bs \in UnitLeafLists}
    \cup {SyncUnitFrom(WhileAllOf(gs, p), gs \o <<p>>) :
            gs \in GuardLists, p \in LeafSpecs}

AsyncUnits ==
    {NewUnit("async", NewUnitNode("Wait", 0, target), dt, <<>>) :
        target \in 0..MaxTarget, dt \in 0..MaxDt}
    \cup {NewUnit("async", NewUnitNode(k, 1, 0), 1, <<b>>) :
            k \in {"Action", "Invert"}, b \in LeafSpecs}
    \cup {NewUnit("async", NewUnitNode(k, Len(bs), 0), 1, bs) :
            k \in {"Sequence", "Select", "Loop"}, bs \in UnitLeafLists}

\* The first run's result, once it is known.
FirstRun(u, done, out, polls) ==
    IF u.first = <<>> /\ u.runs = 1 /\ done
    THEN [out |-> out, polls |-> polls]
    ELSE u.first

\* What the caller keeps of one call of tick: the child, the status
\* returned, and the count of calls.
SyncUnitTicked(u, r) ==
    [u EXCEPT !.node = r.child, !.out = r.ret,
              !.t = @ + 1, !.polls = @ + 1,
              !.first = FirstRun(u, r.ret \in Terminal, r.ret, u.polls + 1)]

\* child.tick(dt, &mut shared)
SyncUnitTick ==
    /\ variant = "unit"
    /\ unit.mode = "sync"
    /\ unit.t < MaxTicks
    /\ unit.out # "panic"
    /\ unit' = SyncUnitTicked(unit, SyncChildTick(unit.node, unit.dt))
    /\ UNCHANGED <<nodeVars, treeVars, wa, extraVars>>

\* child.reset(&mut shared), in any state of the child
SyncUnitReset ==
    /\ variant = "unit"
    /\ unit.mode = "sync"
    /\ unit.node.action.kind # "Invert"
    /\ unit.out # "panic"
    /\ unit.runs <= MaxResets
    /\ LET c == SyncChildReset(unit.node)
       IN unit' = [unit EXCEPT !.node = c, !.afterReset = c.cell,
                               !.polls = 0, !.runs = @ + 1, !.clean = TRUE,
                               !.prev = IF unit.out \in Terminal
                                        THEN "completed" ELSE "cancelled"]
    /\ UNCHANGED <<nodeVars, treeVars, wa, extraVars>>

\* TickedAsyncExecutor::tick while the task awaiting the node's run is
\* alive: the delta is sent and the task is polled once.
AsyncUnitTick ==
    /\ variant = "unit"
    /\ unit.mode = "async"
    /\ unit.t < MaxTicks
    /\ unit.out = "pending"
    /\ LET r == AsyncChildRun(unit.node, UnitWant(unit), unit.dt)
       IN /\ ~r.refused
          /\ unit' = [unit EXCEPT !.node = r.node, !.out = TaskResult(r),
                                  !.t = @ + 1, !.polls = @ + 1,
                                  !.first = FirstRun(unit, r.ready,
                                                     TaskResult(r),
                                                     unit.polls + 1)]
    /\ UNCHANGED <<nodeVars, treeVars, wa, extraVars>>

\* The task, after the run has returned: `node.reset(..)` and then
\* `node.run(..).await` again.
AsyncUnitReset ==
    /\ variant = "unit"
    /\ unit.mode = "async"
    /\ unit.out \in {"true", "false"}
    /\ unit.runs <= MaxResets
    /\ LET n == AsyncChildReset(unit.node)
       IN unit' = [unit EXCEPT !.node = n, !.afterReset = n.cell,
                               !.out = "pending", !.polls = 0,
                               !.runs = @ + 1, !.clean = TRUE,
                               !.prev = "completed"]
    /\ UNCHANGED <<nodeVars, treeVars, wa, extraVars>>

\* The task, after the run has returned: `node.run(..).await` again with no
\* reset before it.
AsyncUnitRunAgain ==
    /\ variant = "unit"
    /\ unit.mode = "async"
    /\ unit.out \in {"true", "false"}
    /\ unit.runs <= MaxResets
    /\ unit' = [unit EXCEPT !.out = "pending", !.polls = 0,
                            !.runs = @ + 1, !.clean = FALSE,
                            !.prev = "completed"]
    /\ UNCHANGED <<nodeVars, treeVars, wa, extraVars>>

\* The pending run is cancelled (its future dropped), the node is reset and
\* run again.
AsyncUnitCancel ==
    /\ variant = "unit"
    /\ unit.mode = "async"
    /\ unit.out = "pending"
    /\ unit.node.live
    /\ unit.runs <= MaxResets
    /\ LET n == AsyncChildReset(DropRun(unit.node))
       IN unit' = [unit EXCEPT !.node = n, !.afterReset = n.cell,
                               !.polls = 0, !.runs = @ + 1, !.clean = TRUE,
                               !.prev = "cancelled"]
    /\ UNCHANGED <<nodeVars, treeVars, wa, extraVars>>

InitUnit ==
    /\ variant = "unit"
    /\ kind = "Unit"
    /\ childSpecs = <<>>
    /\ NoNode
    /\ ticked = <<>>
    /\ ret = None
    /\ nticks = 0
    /\ NoTree
    /\ wa = <<>>
    /\ unit \in SyncUnits \cup AsyncUnits
    /\ NoExtras

NextUnit ==
    \/ SyncUnitTick
    \/ SyncUnitReset
    \/ AsyncUnitTick
    \/ AsyncUnitReset
    \/ AsyncUnitRunAgain
    \/ AsyncUnitCancel

SpecUnit == InitUnit /\ [][NextUnit]_vars

(***************************************************************************)
(* The async driver (AsyncBehaviorTree::new): a future that loops over a   *)
(* select! of the root's run, the reset channel and the shutdown channel,  *)
(* and the controller that holds the two senders.  The executor polls the  *)
(* future once per tick.                                                   *)
(*   policy     AsyncBehaviorTreePolicy                                    *)
(*   node       the root AsyncChild; leaves, dt as for `unit`              *)
(*   at         where the future stands: "select", the yield_now of the    *)
(*              ChildCompleted arm ("yieldReload") or of the               *)
(*              ResetNotification arm ("yieldReset"), "done", "panic"      *)
(*   resetReq, shutReq   reset_rx / shutdown_rx hold an unseen value       *)
(*   timed, t   whether the executor's ticks are counted, and the ticks    *)
(*              so far if they are                                         *)
(*   sent       calls of controller.reset() so far                         *)
(*   shut       controller.shutdown() has been called                      *)
(*   dropped    the controller, and with it both senders, has been dropped *)
(*   rootReset  child.reset has been called                                *)
(*   rerun      the root's run has been polled since the last call of      *)
(*              controller.reset()                                         *)
(*   ended      the arm that broke the loop                                *)
(*   raced      the root was reset while its run was in flight             *)
(***************************************************************************)
AsyncBehaviorTreeNew(pol, node, leaves, dt, timed) ==
    [policy |-> pol, node |-> node, leaves |-> leaves, dt |-> dt,
     at |-> "select", resetReq |-> FALSE, shutReq |-> FALSE,
     timed |-> timed, t |-> 0,
     sent |-> 0, shut |-> FALSE, rootReset |-> FALSE,
     rerun |-> TRUE, ended |-> "none", raced |-> FALSE, dropped |-> FALSE]

\* A select! that checks its branches in the order they are written.
SelectStartsBiased == {"child"}

\* tokio::select! picks at random the branch it checks first and checks the
\* others in the order they are written, wrapping around.
SelectStarts == {"child", "reset", "shutdown"}

SelectOrder(start) ==
    IF start = "child" THEN <<"child", "reset", "shutdown">>
    ELSE IF start = "reset" THEN <<"reset", "shutdown", "child">>
    ELSE <<"shutdown", "child", "reset">>

\* A receiver whose changed() stays pending after its sender is gone.
ChannelClosedPending(d) == FALSE

\* reset_rx.changed() / shutdown_rx.changed() once the sender is dropped:
\* the future is ready at once with Err, and the select! pattern `_`
\* accepts it.
ChannelClosed(d) == d.dropped

\* One poll of the select!: the branches are polled in order until one is
\* ready.  The root's run is polled only if no branch before it was ready;
\* a run that is not the ready branch is dropped when another one is.
DriverSelect(d, start) ==
    LET order == SelectOrder(start)
        r == AsyncChildRun(d.node, UnitWant(d), d.dt)
        Ready(b) == IF b = "child" THEN r.ready \/ r.panic
                    ELSE IF b = "reset" THEN d.resetReq \/ ChannelClosed(d)
                    ELSE d.shutReq \/ ChannelClosed(d)
        first == IF Ready(order[1]) THEN 1
                 ELSE IF Ready(order[2]) THEN 2
                 ELSE IF Ready(order[3]) THEN 3
                 ELSE 0
        won == IF first = 0 THEN "none" ELSE order[first]
        polled == \E k \in 1..3 : /\ order[k] = "child"
                                  /\ (first = 0 \/ k <= first)
        ran == IF polled THEN [d EXCEPT !.node = r.node, !.rerun = TRUE]
               ELSE d
    IN IF won = "none" THEN [d |-> ran, state |-> "Pending"]
       ELSE IF won = "child"
       THEN [d |-> ran,
             state |-> IF r.panic THEN "Panic" ELSE "ChildCompleted"]
       ELSE IF won = "reset"
       THEN [d |-> [ran EXCEPT !.node = DropRun(@), !.resetReq = FALSE],
             state |-> "ResetNotification"]
       ELSE [d |-> [ran EXCEPT !.node = DropRun(@), !.shutReq = FALSE],
             state |-> "ShutdownNotification"]

\* child.reset(&mut shared) in the driver's loop
DriverChildReset(d) ==
    [d EXCEPT !.node = AsyncChildReset(d.node), !.rootReset = TRUE,
              !.raced = @ \/ d.node.live]

\* A driver that treats completion under RetainOnCompletion as it does
\* under ReloadOnCompletion: it yields and resets the root.
DriverMatchReloads(d, state) ==
    IF state = "Pending" THEN d
    ELSE IF state = "Panic" THEN [d EXCEPT !.at = "panic"]
    ELSE IF state = "ChildCompleted" THEN [d EXCEPT !.at = "yieldReload"]
    ELSE IF state = "ResetNotification" THEN [d EXCEPT !.at = "yieldReset"]
    ELSE [DriverChildReset(d) EXCEPT !.at = "done", !.ended = state]

\* `match state { .. }` up to the arm's first await or its break.
DriverMatch(d, state) ==
    IF state = "Pending" THEN d
    ELSE IF state = "Panic" THEN [d EXCEPT !.at = "panic"]
    ELSE IF state = "ChildCompleted"
    THEN IF d.policy = "ReloadOnCompletion"
         THEN [d EXCEPT !.at = "yieldReload"]
         ELSE [d EXCEPT !.at = "done", !.ended = state]
    ELSE IF state = "ResetNotification" THEN [d EXCEPT !.at = "yieldReset"]
    ELSE [DriverChildReset(d) EXCEPT !.at = "done", !.ended = state]

\* The rest of an arm after its yield_now: the root is reset, and the loop
\* goes on or, for a reset under RetainOnCompletion, breaks.
DriverResume(d) ==
    IF d.at = "yieldReload"
    THEN [DriverChildReset(d) EXCEPT
            !.at = IF d.policy = "ReloadOnCompletion" THEN "select"
                   ELSE "done",
            !.ended = IF d.policy = "ReloadOnCompletion" THEN @
                      ELSE "ChildCompleted"]
    ELSE IF d.at = "yieldReset"
    THEN [DriverChildReset(d) EXCEPT
            !.at = IF d.policy = "ReloadOnCompletion" THEN "select"
                   ELSE "done",
            !.ended = IF d.policy = "ReloadOnCompletion" THEN @
                      ELSE "ResetNotification"]
    ELSE d

\* One poll of the driver's future: it goes on from where it stands until
\* its next await is pending or the loop has broken.
DriverPollStep(d, start) ==
    LET resumed == DriverResume(d)
    IN IF resumed.at # "select" THEN resumed
       ELSE LET s == DriverSelect(resumed, start)
            IN DriverMatch(s.d, s.state)

\* AsyncBehaviorController::reset: the send fails, and is ignored, once the
\* future and with it the receiver are gone.
ControllerResetStep(d) ==
    [d EXCEPT !.sent = @ + 1, !.rerun = FALSE,
              !.resetReq = IF d.at \in {"done", "panic"} THEN @ ELSE TRUE]

\* AsyncBehaviorController::shutdown
ControllerShutdownStep(d) ==
    [d EXCEPT !.shut = TRUE,
              !.shutReq = IF d.at \in {"done", "panic"} THEN @ ELSE TRUE]

\* The roots the driver is built around: a Wait, an action, an Invert, or a
\* Sequence, a Select or a Loop of one or two actions.
DriverRoots ==
    {[node |-> u.node, leaves |-> u.leaves, dt |-> u.dt] :
        u \in {v \in AsyncUnits : Len(v.leaves) <= 2}}

\* TickedAsyncExecutor::tick while the driver's task is alive: the delta is
\* sent and the task is polled once; `start` is the branch the select!
\* checks first in this poll.
DriverPoll(start) ==
    /\ variant = "driver"
    /\ adrv.at \notin {"done", "panic"}
    /\ adrv.timed => adrv.t < MaxTicks
    /\ start \in SelectStarts
    /\ adrv' = [DriverPollStep(adrv, start) EXCEPT
                  !.t = IF adrv.timed THEN @ + 1 ELSE @]
    /\ UNCHANGED <<nodeVars, treeVars, wa, unit, comp, calc, kids>>

DriverTick == \E start \in SelectStarts : DriverPoll(start)

\* controller.reset()
ControllerReset ==
    /\ variant = "driver"
    /\ adrv.sent < MaxResets
    /\ ~adrv.dropped
    /\ adrv' = ControllerResetStep(adrv)
    /\ UNCHANGED <<nodeVars, treeVars, wa, unit, comp, calc, kids>>

\* controller.shutdown()
ControllerShutdown ==
    /\ variant = "driver"
    /\ ~adrv.shut
    /\ ~adrv.dropped
    /\ adrv' = ControllerShutdownStep(adrv)
    /\ UNCHANGED <<nodeVars, treeVars, wa, unit, comp, calc, kids>>

InitDriverWith(timed) ==
    /\ variant = "driver"
    /\ kind = "Driver"
    /\ childSpecs = <<>>
    /\ NoNode
    /\ ticked = <<>>
    /\ ret = None
    /\ nticks = 0
    /\ NoTree
    /\ wa = <<>>
    /\ unit = <<>>
    /\ comp = <<>>
    /\ calc = <<>>
    /\ kids = <<>>
    /\ adrv \in {AsyncBehaviorTreeNew(pol, r.node, r.leaves, r.dt, timed) :
                    pol \in Policies, r \in DriverRoots}

InitDriver == InitDriverWith(TRUE)

NextDriver ==
    \/ DriverTick
    \/ ControllerReset
    \/ ControllerShutdown

SpecDriver == InitDriver /\ [][NextDriver]_vars

\* The executor keeps ticking (its ticks are not counted), and a select!
\* that is polled again and again starts again and again at its shutdown
\* branch.
SpecDriverFair ==
    /\ InitDriverWith(FALSE)
    /\ [][NextDriver]_vars
    /\ WF_vars(DriverPoll("shutdown"))

\* The AsyncBehaviorController is dropped while the driver's future is
\* alive: reset_tx and shutdown_tx go with it and both channels are closed.
ControllerDrop ==
    /\ variant = "driver"
    /\ ~adrv.dropped
    /\ adrv.at \notin {"done", "panic"}
    /\ adrv' = [adrv EXCEPT !.dropped = TRUE]
    /\ UNCHANGED <<nodeVars, treeVars, wa, unit, comp, calc, kids>>

NextControllerDrop ==
    \/ DriverTick
    \/ ControllerReset
    \/ ControllerShutdown
    \/ ControllerDrop

\* The driver with a controller that may be dropped, under the scheduling of
\* SpecDriverFair.
SpecControllerDropFair ==
    /\ InitDriverWith(FALSE)
    /\ [][NextControllerDrop]_vars
    /\ WF_vars(DriverPoll("shutdown"))

(***************************************************************************)
(* Trees of nested behaviours.  A behaviour (Behavior<A>) is a leaf        *)
(* description from LeafSpecs, or a record tagged with its kind:           *)
(*   [kind |-> "Wait", target], [kind |-> "Invert", child],                *)
(*   [kind |-> "Sequence" or "Select", children].                          *)
(***************************************************************************)
IsLeaf(b) == "kind" \notin DOMAIN b

WaitOf(target) == [kind |-> "Wait", target |-> target]
InvertOf(b) == [kind |-> "Invert", child |-> b]
SequenceOf(bs) == [kind |-> "Sequence", children |-> bs]
SelectOf(bs) == [kind |-> "Select", children |-> bs]

\* How the crate was compiled: with or without overflow checks.
Builds == {"debug", "release"}

(***************************************************************************)
(* The async tree: every node is an AsyncChild, kept as the record `node`  *)
(* of NewUnitNode (its cell, its evaluator's fields and where its run      *)
(* future stands) together with its children `kids` and, for an action,    *)
(* its description `spec`.                                                 *)
(***************************************************************************)
RECURSIVE AsyncChildFromBehavior(_)
\* AsyncChild::from_behavior_with_state_and_status
AsyncChildFromBehavior(b) ==
    IF IsLeaf(b)
    THEN [node |-> NewUnitNode("Action", 1, 0), kids |-> <<>>, spec |-> b]
    ELSE IF b.kind = "Wait"
    THEN [node |-> NewUnitNode("Wait", 0, b.target), kids |-> <<>>,
          spec |-> <<>>]
    ELSE IF b.kind = "Invert"
    THEN [node |-> [NewUnitNode("Invert", 1, 0) EXCEPT !.cap = MaxTicks],
          kids |-> <<AsyncChildFromBehavior(b.child)>>, spec |-> <<>>]
    ELSE [node |-> [NewUnitNode(b.kind, Len(b.children), 0)
                      EXCEPT !.cap = MaxTicks],
          kids |-> [i \in 1..Len(b.children) |->
                      AsyncChildFromBehavior(b.children[i])],
          spec |-> <<>>]

\* AsyncWaitState::run when delta.changed() returns an error (the sender is
\* gone): the loop breaks and the run returns true.
PollWaitClosed(node) ==
    PollResult([node EXCEPT !.cell = Success, !.live = FALSE], TRUE, TRUE)

\* AsyncWaitState::run, one poll, with a delta source that may be closed.
\* A receiver handed to a new run has not seen the last value sent, so its
\* first changed() is ready even when the sender is gone.
PollWaitOn(node, dt, closed, stale) ==
    IF closed /\ ~(stale /\ ~node.live)
    THEN PollWaitClosed(node)
    ELSE PollWait(node, dt)

\* TestRunner::run, one poll, with a delta source that may be closed: the
\* loop ignores what changed() returns, so with the sender gone it counts
\* down without waiting.
TestRunnerRunOn(spec, pends, closed) ==
    IF closed THEN (IF spec.output = Success THEN "true" ELSE "false")
    ELSE TestRunnerRun(spec, pends)

\* `self.children.len() - 1` with no children: a panic with overflow checks,
\* a wrapped `last` without them, and then a loop over nothing.
PollEmpty(node, build) ==
    IF ~node.live /\ node.completed
    THEN PollPanic([node EXCEPT !.cell = Running])
    ELSE IF build = "debug"
    THEN PollPanic([node EXCEPT !.cell = Running])
    ELSE PollResult([node EXCEPT !.completed = TRUE, !.live = FALSE,
                                 !.cell = StatusOf(node.kind = "Sequence")],
                    TRUE, node.kind = "Sequence")

\* The tree with the result of a poll of its node and of its i-th child.
PollStored(t, res, i, kid) ==
    [node |-> [t EXCEPT !.node = res.node,
                        !.kids = IF i = 0 \/ res.panic \/ res.refused THEN @
                                 ELSE [@ EXCEPT ![i] = kid]],
     ready |-> res.ready, value |-> res.value, panic |-> res.panic,
     refused |-> res.refused]

RECURSIVE PollTree(_, _)
\* AsyncChild::run of any node of the tree: one poll.  env = [dt, closed,
\* stale, build]: the tick's delta, whether the delta source is closed,
\* whether a value has ever been sent, and the build.
PollTree(t, env) ==
    LET k == t.node.kind
    IN IF k = "Action"
       THEN PollStored(t, PollAction(t.node,
                            TestRunnerRunOn(
                              t.spec,
                              IF t.node.live THEN t.node.pends ELSE 0,
                              env.closed)),
                       0, <<>>)
       ELSE IF k = "Wait"
       THEN PollStored(t, PollWaitOn(t.node, env.dt, env.closed, env.stale),
                       0, <<>>)
       ELSE IF t.node.n = 0
       THEN PollStored(t, PollEmpty(t.node, env.build), 0, <<>>)
       ELSE IF ~t.node.live /\ t.node.completed
       THEN PollStored(t, PollPanic([t.node EXCEPT !.cell = Running]),
                       0, <<>>)
       ELSE LET i == IF k = "Invert" THEN 1 ELSE NextIndex(t.node)
                r == PollTree(t.kids[i], env)
                want == TaskResult(r)
            IN IF r.panic
               THEN PollStored(t, PollPanic([t.node EXCEPT !.cell = Running]),
                               0, <<>>)
               ELSE IF k = "Invert"
               THEN PollStored(t, PollInvert(t.node, want), 1, r.node)
               ELSE PollStored(t, PollControl(t.node, want), i, r.node)

(***************************************************************************)
(* `comp` holds a tree and what its caller has seen of it:                 *)
(*   mode       "sync": the root is a boxed Action that its caller ticks   *)
(*              and halts; "async": the root is an AsyncChild whose run a  *)
(*              task awaits, polled by the executor                        *)
(*   build      how the crate was compiled                                 *)
(*   behavior   the behaviour the root was constructed from                *)
(*   root       the root, or Panicked if its constructor panicked          *)
(*   dt         the delta of every tick                                    *)
(*   closed     the sender of the delta channel has been dropped           *)
(*   midWait    it was dropped while a Wait's run was pending              *)
(*   t          ticks of the root / polls of the task so far               *)
(*   out        sync: what the last tick returned, None after a halt;      *)
(*              async: what the task has got from the run                  *)
(*   rets       what each tick returned / each poll left the task with     *)
(*   halts      calls of halt so far                                       *)
(*   stray      some halt came while the root's current child was not      *)
(*              Running                                                    *)
(*   inner      for Invert(Invert(X)): X on its own, driven alongside      *)
(*   innerRets  what each tick / poll of `inner` gave                      *)
(*   twin       sync: the same behaviour, ticked alongside, never halted   *)
(*   twinRets   what each tick of `twin` returned                          *)
(***************************************************************************)
IsDoubleInvert(b) ==
    /\ ~IsLeaf(b)
    /\ b.kind = "Invert"
    /\ ~IsLeaf(b.child)
    /\ b.child.kind = "Invert"

NewComp(mode, build, b, dt) ==
    [mode |-> mode, build |-> build, behavior |-> b,
     root |-> IF mode = "sync" THEN BoxFrom(b) ELSE AsyncChildFromBehavior(b),
     dt |-> dt, closed |-> FALSE, midWait |-> FALSE, t |-> 0,
     out |-> IF mode = "sync" THEN None ELSE "pending",
     rets |-> <<>>, halts |-> 0, stray |-> FALSE,
     inner |-> IF ~IsDoubleInvert(b) THEN <<>>
               ELSE IF mode = "sync" THEN BoxFrom(b.child.child)
               ELSE AsyncChildFromBehavior(b.child.child),
     innerRets |-> <<>>,
     twin |-> IF mode = "sync" THEN BoxFrom(b) ELSE <<>>,
     twinRets |-> <<>>]

\* The behaviours the trees are built from.
ImmediateLeaves == {b \in LeafSpecs : b.times = 0}

ListAtoms(mode) ==
    LeafSpecs
    \cup {InvertOf(b) : b \in ImmediateLeaves}
    \cup {SequenceOf(<<>>), SelectOf(<<>>)}
    \cup (IF mode = "async" THEN {WaitOf(MaxTarget)} ELSE {})

BehaviorLists(mode) == UNION {[1..n -> ListAtoms(mode)] : n \in 0..MaxLeaves}

LeafLists == UNION {[1..n -> LeafSpecs] : n \in 1..MaxLeaves}

CompBehaviors(mode) ==
    {SequenceOf(bs) : bs \in BehaviorLists(mode)}
    \cup {SelectOf(bs) : bs \in BehaviorLists(mode)}
    \cup {InvertOf(b) : b \in LeafSpecs}
    \cup {InvertOf(InvertOf(b)) : b \in LeafSpecs}
    \cup {InvertOf(InvertOf(SequenceOf(bs))) : bs \in LeafLists}
    \cup {InvertOf(InvertOf(SelectOf(bs))) : bs \in LeafLists}

\* action.tick(dt, &mut shared) on a boxed action that may have panicked
TickOnce(a) ==
    IF a = <<>> THEN [status |-> None, action |-> a]
    ELSE ActionTick(a)

\* root.tick(dt, &mut shared)
CompTick ==
    /\ variant = "comp"
    /\ comp.mode = "sync"
    /\ ~IsPanicked(comp.root)
    /\ comp.out # "panic"
    /\ comp.t < MaxTicks
    /\ LET r == ActionTick(comp.root)
           i == TickOnce(comp.inner)
           w == ActionTick(comp.twin)
       IN comp' = [comp EXCEPT !.root = r.action, !.out = r.status,
                               !.t = @ + 1,
                               !.rets = Append(@, r.status),
                               !.inner = i.action,
                               !.innerRets = Append(@, i.status),
                               !.twin = w.action,
                               !.twinRets = Append(@, w.status)]
    /\ UNCHANGED <<nodeVars, treeVars, wa, unit, adrv, calc, kids>>

\* The current child of a boxed Invert, Sequence or Select is Running.
ChildRunning(a) ==
    IF a.kind = "Invert" THEN a.current_action_status = Running
    ELSE a.self.current_action_status = Running

\* root.halt()
CompHalt ==
    /\ variant = "comp"
    /\ comp.mode = "sync"
    /\ ~IsPanicked(comp.root)
    /\ comp.out # "panic"
    /\ comp.halts < MaxResets
    /\ comp' = [comp EXCEPT !.root = ActionHalt(comp.root), !.out = None,
                            !.halts = @ + 1,
                            !.stray = @ \/ ~ChildRunning(comp.root)]
    /\ UNCHANGED <<nodeVars, treeVars, wa, unit, adrv, calc, kids>>

\* What the polls of the tree's nodes are given.
CompEnv(c) ==
    [dt |-> c.dt, closed |-> c.closed, stale |-> c.t > 0, build |-> c.build]

\* The executor polls the task that awaits the root's run: in a tick, after
\* the tick's delta has been sent, or, once the sender is gone, because the
\* task was woken by the closing of the channel or by its own yield.
CompPoll ==
    /\ variant = "comp"
    /\ comp.mode = "async"
    /\ comp.out = "pending"
    /\ comp.t < MaxTicks
    /\ LET r == PollTree(comp.root, CompEnv(comp))
           i == IF comp.inner = <<>> \/ (comp.innerRets # <<>> /\
                     comp.innerRets[Len(comp.innerRets)] # "pending")
                THEN [node |-> comp.inner, ret |-> "none"]
                ELSE LET q == PollTree(comp.inner, CompEnv(comp))
                     IN [node |-> q.node, ret |-> TaskResult(q)]
       IN /\ ~r.refused
          /\ comp' = [comp EXCEPT !.root = r.node, !.out = TaskResult(r),
                                  !.t = @ + 1,
                                  !.rets = Append(@, TaskResult(r)),
                                  !.inner = i.node,
                                  !.innerRets = Append(@, i.ret)]
    /\ UNCHANGED <<nodeVars, treeVars, wa, unit, adrv, calc, kids>>

RECURSIVE WaitPending(_)
\* A Wait of the tree has a run that is pending.
WaitPending(t) ==
    \/ t.node.kind = "Wait" /\ t.node.live
    \/ \E i \in 1..Len(t.kids) : WaitPending(t.kids[i])

\* The sender of the delta channel is dropped while the task is alive.
CompClose ==
    /\ variant = "comp"
    /\ comp.mode = "async"
    /\ comp.out = "pending"
    /\ ~comp.closed
    /\ comp' = [comp EXCEPT !.closed = TRUE,
                            !.midWait = WaitPending(comp.root)]
    /\ UNCHANGED <<nodeVars, treeVars, wa, unit, adrv, calc, kids>>

InitComp ==
    /\ variant = "comp"
    /\ kind = "Comp"
    /\ childSpecs = <<>>
    /\ NoNode
    /\ ticked = <<>>
    /\ ret = None
    /\ nticks = 0
    /\ NoTree
    /\ wa = <<>>
    /\ unit = <<>>
    /\ adrv = <<>>
    /\ calc = <<>>
    /\ kids = <<>>
    /\ comp \in {NewComp("sync", "debug", b, 1) : b \in CompBehaviors("sync")}
          \cup {NewComp("async", build, b, 1) :
                  build \in Builds, b \in CompBehaviors("async")}

NextComp ==
    \/ CompTick
    \/ CompHalt
    \/ CompPoll
    \/ CompClose

SpecComp == InitComp /\ [][NextComp]_vars

(***************************************************************************)
(* The examples' trees of blackboard operations (examples/simple.rs,       *)
(* examples/simple_immediate_sync.rs): a Sequence of two operations that   *)
(* read literals or blackboard entries and write a blackboard entry, under *)
(* a synchronous BehaviorTree.  The blackboard (HashMap<String, usize>) is *)
(* a function from the keys present to their values.  A usize is kept as   *)
(* its representative of least magnitude modulo 2^64, so that a negative   *)
(* number r stands for 2^64 + r.                                           *)
(***************************************************************************)
AddLeft == 10
AddRight == 20
SubRight == 20
ExpectedSub == 10

Keys == {"add", "sub"}

Literals == {AddLeft, AddRight, SubRight}

\* Input::Literal, Input::Blackboard
InputLiteral(data) == [from |-> "Literal", data |-> data]
InputBlackboard(key) == [from |-> "Blackboard", key |-> key]

Inputs == {InputLiteral(v) : v \in Literals} \cup {InputBlackboard(k) : k \in Keys}

\* Operation::Add and Operation::Subtract with Output::Blackboard(out)
OperationAdd(a, b, out) == [op |-> "Add", a |-> a, b |-> b, out |-> out]
OperationSubtract(a, b, out) == [op |-> "Subtract", a |-> a, b |-> b, out |-> out]

Operations ==
    {OperationAdd(a, b, k) : a \in Inputs, b \in Inputs, k \in Keys}
    \cup {OperationSubtract(a, b, k) : a \in Inputs, b \in Inputs, k \in Keys}

\* The Option<&usize> an input gives: the literal, or blackboard.get(key)
InputGet(i, bb) ==
    IF i.from = "Literal" THEN [some |-> TRUE, data |-> i.data]
    ELSE IF i.key \in DOMAIN bb THEN [some |-> TRUE, data |-> bb[i.key]]
    ELSE [some |-> FALSE, data |-> 0]

\* blackboard.insert(key, c)
BlackboardInsert(bb, key, c) ==
    [k \in DOMAIN bb \cup {key} |-> IF k = key THEN c ELSE bb[k]]

\* a + b on usize: with overflow checks a panic when the sum passes 2^64
UsizeAdd(a, b, build) ==
    [panic |-> /\ build = "debug"
               /\ \/ a < 0 /\ b < 0
                  \/ (a < 0) # (b < 0) /\ a + b >= 0,
     value |-> a + b]

\* a - b on usize: with overflow checks a panic when a < b
UsizeSub(a, b, build) ==
    [panic |-> /\ build = "debug"
               /\ IF (a < 0) = (b < 0) THEN a < b ELSE b < 0,
     value |-> a - b]

\* What a tick of an operation gives: its status and the blackboard after.
Ticked(st, bb) == [status |-> st, bb |-> bb]

\* AddState::tick / AddState::run
AddStateTick(op, bb, build) ==
    LET a == InputGet(op.a, bb)
        b == InputGet(op.b, bb)
        c == UsizeAdd(a.data, b.data, build)
    IN IF ~a.some \/ ~b.some THEN Ticked(Failure, bb)
       ELSE IF c.panic THEN Ticked("panic", bb)
       ELSE Ticked(Success, BlackboardInsert(bb, op.out, c.value))

\* A subtraction with its operands swapped.
SubStateTickSwapped(op, bb, build) ==
    LET a == InputGet(op.a, bb)
        b == InputGet(op.b, bb)
        c == UsizeSub(b.data, a.data, build)
    IN IF ~a.some \/ ~b.some THEN Ticked(Failure, bb)
       ELSE IF c.panic THEN Ticked("panic", bb)
       ELSE Ticked(Success, BlackboardInsert(bb, op.out, c.value))

\* SubState::tick / SubState::run
SubStateTick(op, bb, build) ==
    LET a == InputGet(op.a, bb)
        b == InputGet(op.b, bb)
        c == UsizeSub(a.data, b.data, build)
    IN IF ~a.some \/ ~b.some THEN Ticked(Failure, bb)
       ELSE IF c.panic THEN Ticked("panic", bb)
       ELSE Ticked(Success, BlackboardInsert(bb, op.out, c.value))

\* Action::tick of the action an operation was converted to
OperationTick(op, bb, build) ==
    IF op.op = "Add" THEN AddStateTick(op, bb, build)
    ELSE SubStateTick(op, bb, build)

\* The leaves the tree is built from: one immediate action per operation;
\* what its tick returns is decided by the blackboard when it is ticked.
OperationLeaves(ops) == [i \in 1..Len(ops) |-> [times |-> 0, output |-> Success]]

\* The leaf the root is at.
CurrentLeaf(t, drv) ==
    IF drv = "Child" THEN Len(t.state.child_states) ELSE t.state.index + 1

\* The tree whose current leaf returns `st` from its tick.
WithLeafOutput(t, drv, st) ==
    IF drv = "Child" THEN [t EXCEPT !.state.current_action.spec.output = st]
    ELSE [t EXCEPT !.state.current_state.spec.output = st]

(***************************************************************************)
(* `calc` holds the tree, the shared blackboard and what main has seen:    *)
(*   driver, policy, build   which BehaviorTree, its policy, the build     *)
(*   ops       the operations of the Sequence                              *)
(*   tree      the driver's status and the state of its root               *)
(*   bb        the blackboard                                              *)
(*   out       bt.status() after the last tick, or "panic"                 *)
(*   rets      bt.status() after each tick                                 *)
(*   ran       per tick, the operation that was ticked (0: none)           *)
(*   bbs       the blackboard after each tick                              *)
(*   resets    calls of bt.reset() so far                                  *)
(***************************************************************************)
NewCalc(drv, pol, build, ops) ==
    [driver |-> drv, policy |-> pol, build |-> build, ops |-> ops,
     tree |-> NewTree(drv, OperationLeaves(ops)),
     bb |-> <<>>, out |-> None, rets |-> <<>>, ran |-> <<>>, bbs |-> <<>>,
     resets |-> 0]

\* What main keeps of one tick: the tree, the blackboard the leaf left, and
\* the status read back.
CalcTicked(c, bb, r) ==
    [c EXCEPT !.tree = r.tree, !.bb = bb, !.out = r.tree.status,
              !.rets = Append(@, r.tree.status),
              !.ran = Append(@, r.leaf),
              !.bbs = Append(@, bb)]

\* bt.tick(0.1) followed by bt.status()
CalcTickStep(c) ==
    LET leaves == OperationLeaves(c.ops)
    IN IF c.tree.status \in Terminal /\ c.policy = RetainOnCompletion
       THEN CalcTicked(c, c.bb, BehaviorTreeTick(c.tree, c.driver, c.policy,
                                                  leaves, "Sequence"))
       ELSE LET pre == IF c.tree.status \in Terminal
                       THEN BehaviorTreeReset(c.tree, c.driver, leaves)
                       ELSE c.tree
                i == CurrentLeaf(pre, c.driver)
                o == OperationTick(c.ops[i], c.bb, c.build)
            IN IF o.status = "panic"
               THEN [c EXCEPT !.out = "panic", !.rets = Append(@, "panic"),
                              !.ran = Append(@, i), !.bbs = Append(@, c.bb)]
               ELSE CalcTicked(c, o.bb,
                               BehaviorTreeTick(
                                 WithLeafOutput(pre, c.driver, o.status),
                                 c.driver, c.policy, leaves, "Sequence"))

\* bt.tick(0.1)
CalcTick ==
    /\ variant = "calc"
    /\ calc.out # "panic"
    /\ Len(calc.rets) < MaxTicks
    /\ calc' = CalcTickStep(calc)
    /\ UNCHANGED <<nodeVars, treeVars, wa, unit, adrv, comp, kids>>

\* bt.reset()
CalcReset ==
    /\ variant = "calc"
    /\ calc.out \notin {None, "panic"}
    /\ calc.resets < MaxResets
    /\ calc' = [calc EXCEPT
                  !.tree = BehaviorTreeReset(calc.tree, calc.driver,
                                             OperationLeaves(calc.ops)),
                  !.out = None, !.rets = <<>>, !.ran = <<>>, !.bbs = <<>>,
                  !.resets = @ + 1]
    /\ UNCHANGED <<nodeVars, treeVars, wa, unit, adrv, comp, kids>>

InitCalc ==
    /\ variant = "calc"
    /\ kind = "Calc"
    /\ childSpecs = <<>>
    /\ NoNode
    /\ ticked = <<>>
    /\ ret = None
    /\ nticks = 0
    /\ NoTree
    /\ wa = <<>>
    /\ unit = <<>>
    /\ adrv = <<>>
    /\ comp = <<>>
    /\ kids = <<>>
    /\ calc \in {NewCalc(drv, pol, build, <<first, second>>) :
                   drv \in Drivers, pol \in Policies, build \in Builds,
                   first \in Operations, second \in Operations}

NextCalc ==
    \/ CalcTick
    \/ CalcReset

SpecCalc == InitCalc /\ [][NextCalc]_vars

(***************************************************************************)
(* What an observer of the node sees, in either variant.                   *)
(***************************************************************************)
NumChildren == Len(childSpecs)

\* The last status seen of child j (None: never ticked / never run).
ChildStatus(j) ==
    IF variant = "sync"
    THEN IF j <= Len(child_states) THEN child_states[j] ELSE None
    ELSE anode.cells[j]

\* What the node has reported: the status its last tick returned (sync), or
\* the result of its run, Running while the run is pending (async).
Reported ==
    IF variant = "sync" THEN ret
    ELSE IF aret = "true" THEN Success
    ELSE IF aret = "false" THEN Failure
    ELSE IF anode.cell = None THEN None ELSE Running

\* The first child whose action ends with `st` (0: there is none).
FirstEnding(st) ==
    IF \E j \in 1..NumChildren : childSpecs[j].output = st
    THEN CHOOSE j \in 1..NumChildren :
           /\ childSpecs[j].output = st
           /\ \A h \in 1..(j - 1) : childSpecs[h].output # st
    ELSE 0

Untouched(j) == ticked[j] = 0 /\ ChildStatus(j) = None

RECURSIVE SumTicked(_)
SumTicked(n) == IF n = 0 THEN 0 ELSE ticked[n] + SumTicked(n - 1)

(***************************************************************************)
(* C1.  Sequence of N children, sync tick and async run: if children       *)
(* 1..k-1 succeed and child k fails, the Sequence reports Failure exactly  *)
(* when child k has failed (never Success), and children k+1..N are never  *)
(* ticked or run.                                                          *)
(***************************************************************************)
C1_SequenceEarlyFailure ==
    LET k == FirstEnding(Failure)
    IN (kind = "Sequence" /\ k # 0) =>
         /\ \A j \in (k + 1)..NumChildren : Untouched(j)
         /\ (ChildStatus(k) = Failure) <=> (Reported = Failure)
         /\ Reported # Success

C1_Witness ==
    LET k == FirstEnding(Failure)
    IN /\ variant = "sync"
       /\ kind = "Sequence"
       /\ k >= 2
       /\ k < NumChildren
       /\ ChildStatus(k) = Failure
       /\ Reported = Failure

(***************************************************************************)
(* C2.  Select of N children, sync tick and async run: if children 1..k-1  *)
(* fail and child k succeeds, the Select reports Success exactly when      *)
(* child k has succeeded and children k+1..N are never ticked or run; if   *)
(* all N children fail, it reports Failure exactly when the last child has *)
(* failed.                                                                 *)
(***************************************************************************)
C2_SelectEarlySuccess ==
    LET k == FirstEnding(Success)
    IN kind = "Select" =>
         IF k # 0
         THEN /\ \A j \in (k + 1)..NumChildren : Untouched(j)
              /\ (ChildStatus(k) = Success) <=> (Reported = Success)
              /\ Reported # Failure
         ELSE /\ (ChildStatus(NumChildren) = Failure) <=> (Reported = Failure)
              /\ Reported # Success

C2_Witness ==
    LET k == FirstEnding(Success)
    IN /\ variant = "async"
       /\ kind = "Select"
       /\ k >= 2
       /\ k < NumChildren
       /\ ChildStatus(k) = Success
       /\ Reported = Success

(***************************************************************************)
(* C3.  Sync Sequence: a tick ticks at most one child, and exactly one     *)
(* while the Sequence is not terminal.  When the ticked child succeeds and *)
(* later children remain, the tick returns Running and the next child is   *)
(* first ticked on the following tick; so N children that each succeed on  *)
(* their first tick give Running on ticks 1..N-1 and Success on tick N.    *)
(***************************************************************************)
AllSucceedAtOnce ==
    \A j \in 1..NumChildren :
        childSpecs[j].times = 0 /\ childSpecs[j].output = Success

C3_OneChildPerTick ==
    (variant = "sync" /\ kind = "Sequence") =>
      /\ SumTicked(NumChildren) <= nticks
      /\ status \notin Terminal => SumTicked(NumChildren) = nticks
      /\ \A j \in 2..Len(child_states) :
           (ticked[j] = 0 /\ j = Len(child_states)) =>
             /\ ret = Running
             /\ child_states[j - 1] = Success
      /\ AllSucceedAtOnce =>
           /\ nticks \in 1..(NumChildren - 1) => ret = Running
           /\ nticks >= NumChildren => ret = Success

C3_Witness ==
    /\ variant = "sync"
    /\ kind = "Sequence"
    /\ AllSucceedAtOnce
    /\ NumChildren = 3
    /\ nticks = 3
    /\ ret = Success
    /\ ticked = [j \in 1..3 |-> 1]

(***************************************************************************)
(* The statuses the first n ticks of a freshly constructed tree return.    *)
(***************************************************************************)
RECURSIVE TicksFrom(_, _)
TicksFrom(t, n) ==
    IF n = 0 THEN <<>>
    ELSE LET r == BehaviorTreeTick(t, driver, policy, childSpecs, kind)
         IN <<r.ret>> \o TicksFrom(r.tree, n - 1)

FreshTicks(n) == TicksFrom(NewTree(driver, childSpecs), n)

(***************************************************************************)
(* C4.  BehaviorTree under RetainOnCompletion: once the root's status is   *)
(* Success or Failure, a tick (with no reset before it) returns that same  *)
(* status, ticks no node of the tree, and leaves the tree state and the    *)
(* shared data as they were.                                               *)
(***************************************************************************)
C4_RetainFrozen ==
    [][(/\ variant = "tree"
        /\ policy = RetainOnCompletion
        /\ tree.status \in Terminal
        /\ nticks' = nticks + 1)
       => /\ ret' = tree.status
          /\ tree' = tree
          /\ visits' = visits
          /\ ticked' = ticked]_vars

C4_Witness ==
    /\ variant = "tree"
    /\ driver = "Child"
    /\ policy = RetainOnCompletion
    /\ NumChildren >= 2
    /\ Len(hist) >= 3
    /\ hist[Len(hist) - 2] \in Terminal
    /\ hist[Len(hist)] = hist[Len(hist) - 2]

(***************************************************************************)
(* C5.  BehaviorTree under ReloadOnCompletion: a tick issued while the     *)
(* root's status is terminal resets the root and advances it from its      *)
(* initial state in that same tick (it returns what the first tick of a    *)
(* fresh tree returns and leaves the tree where that tick leaves it); so   *)
(* for a Sequence of N >= 2 actions that each succeed at once the statuses *)
(* of successive ticks repeat with period N: Running N-1 times, then       *)
(* Success.                                                                *)
(***************************************************************************)
C5_ReloadPeriod ==
    (variant = "tree" /\ policy = ReloadOnCompletion) =>
      /\ \A t \in 2..Len(hist) :
           hist[t - 1] \in Terminal => hist[t] = FreshTicks(1)[1]
      /\ (Len(hist) >= 2 /\ hist[Len(hist) - 1] \in Terminal) =>
           tree = BehaviorTreeTick(NewTree(driver, childSpecs), driver,
                                   policy, childSpecs, kind).tree
      /\ (kind = "Sequence" /\ AllSucceedAtOnce /\ NumChildren >= 2) =>
           \A t \in 1..Len(hist) :
             hist[t] = IF t % NumChildren = 0 THEN Success ELSE Running

C5_Witness ==
    /\ variant = "tree"
    /\ driver = "State"
    /\ policy = ReloadOnCompletion
    /\ AllSucceedAtOnce
    /\ NumChildren = 3
    /\ resets = 0
    /\ Len(hist) = 7
    /\ hist[6] = Success
    /\ hist[7] = Running

(***************************************************************************)
(* C6.  BehaviorTree::reset, called in any state, makes status() return    *)
(* None, and the ticks that follow it return the statuses that the same    *)
(* ticks of a freshly constructed tree return.                             *)
(***************************************************************************)
C6_ResetLikeFresh ==
    (variant = "tree" /\ resets > 0) =>
      /\ hist = <<>> => BehaviorTreeStatus = None
      /\ hist = FreshTicks(Len(hist))

C6_Witness ==
    /\ variant = "tree"
    /\ driver = "Child"
    /\ resets = 1
    /\ nticks = Len(hist) + 1
    /\ childSpecs[1].times >= 1
    /\ Len(hist) >= 2
    /\ hist[Len(hist)] \in Terminal

(***************************************************************************)
(* What an observer of the WhileAll node sees.                             *)
(***************************************************************************)
PayloadBranch == wa.ng + 1

\* The child of branch b, whatever the state of its run future.
ChildOf(w, b) == DropRun(w.br[b].node)

C10_SameTick ==
    (variant = "whileall" /\ wa.failed # 0) => wa.result = "false"

(***************************************************************************)
(* C10 as amended.  If a guard's run returns failure during tick T, the    *)
(* node's run returns Failure during tick T when the failing guard is the  *)
(* first guard, and during tick T + 1 otherwise; never later.              *)
(***************************************************************************)
C10_LagAtMostOne ==
    (variant = "whileall" /\ wa.failed # 0) =>
      IF wa.failed = 1
      THEN wa.result = "false" /\ wa.lag = 0
      ELSE /\ wa.lag = 0 => wa.result = "pending"
           /\ wa.lag >= 1 => (wa.result = "false" /\ wa.lag = 1)

C10_Witness ==
    /\ variant = "whileall"
    /\ wa.ng = 2
    /\ wa.failed = 2
    /\ wa.lag = 1
    /\ wa.result = "false"

(***************************************************************************)
(* Observers of the WhileAll node's guards.                                *)
(***************************************************************************)
\* The node's run has been polled at least once since it was started.
WhileAllPolled(w) ==
    ~(/\ w.holder = 0
      /\ w.queue = <<>>
      /\ \A b \in 1..NumBranches(w) : w.br[b].pc = "lock_run")

\* Branch b's child was run during the last poll: the poll left the branch
\* inside child.run or past it, not waiting for the runner.
RanInLastPoll(w, b) == w.br[b].pc \in {"run", "yield", "done"}

\* Branch b's child has completed a run, with status st, during the current
\* run of the node and has not been reset since.
CompletedWith(w, b, st) ==
    /\ w.br[b].ran
    /\ ~w.br[b].wasReset
    /\ ~w.br[b].node.live
    /\ w.br[b].node.cell = st

(***************************************************************************)
(* C11.  Async WhileAll re-checks its guards on every tick: while the node *)
(* is Running, each tick runs every guard, also a tick during which the    *)
(* payload is in the middle of a multi-tick run.                           *)
(***************************************************************************)
C11_GuardsEveryTick ==
    (variant = "whileall" /\ wa.result = "pending" /\ wa.failed = 0
       /\ WhileAllPolled(wa)) =>
      \A b \in 1..wa.ng : RanInLastPoll(wa, b)

StartedChildren == {j \in 1..NumChildren : anode.cells[j] # None}

(***************************************************************************)
(* C14.  Async Sequence and Select yield between two children: after t     *)
(* executor ticks at most t children of the node have been started, and a  *)
(* Sequence of N actions that succeed at once is still pending after ticks *)
(* 1..N-1 and completes, with true, on tick N.                             *)
(***************************************************************************)
C14_OneChildPerTick ==
    variant = "async" =>
      /\ Cardinality(StartedChildren) <= nticks
      /\ (anode.live /\ anode.at = "yield") =>
            (aret = "pending" /\ anode.cells[anode.index] \in Terminal)
      /\ (kind = "Sequence" /\ AllSucceedAtOnce) =>
            /\ nticks <= NumChildren
            /\ nticks < NumChildren => aret = "pending"
            /\ nticks = NumChildren => aret = "true"

C14_Witness ==
    /\ variant = "async"
    /\ kind = "Sequence"
    /\ AllSucceedAtOnce
    /\ NumChildren = 3
    /\ nticks = 3
    /\ aret = "true"
    /\ Cardinality(StartedChildren) = 3

(***************************************************************************)
(* Observers of a single node.                                             *)
(***************************************************************************)
\* The kind of the node under the Child / AsyncChild.
UnitKind(u) == IF u.mode = "sync" THEN u.node.action.kind ELSE u.node.kind

\* The node's observable status cell.
UnitCell(u) == u.node.cell

(***************************************************************************)
(* C13.  A Loop node never reports Success or Failure: the sync Loop's     *)
(* tick returns Running on every call and the async Loop's run never       *)
(* completes, whatever its child returns, so the status of a tree rooted   *)
(* at a Loop is never terminal.                                            *)
(***************************************************************************)
C13_LoopNeverTerminal ==
    (variant = "unit" /\ UnitKind(unit) = "Loop") =>
      /\ UnitCell(unit) \in {None, Running}
      /\ unit.mode = "sync" =>
            unit.out = (IF unit.t = 0 THEN None ELSE Running)
      /\ unit.mode = "async" => unit.out = "pending"

C13_Witness ==
    /\ variant = "unit"
    /\ unit.mode = "sync"
    /\ UnitKind(unit) = "Loop"
    /\ unit.node.action.child.action.kind = "Sequence"
    /\ unit.node.action.child.action.bs
         = <<[times |-> 0, output |-> Success], [times |-> 0, output |-> Failure]>>
    /\ unit.node.action.child.cell = Failure
    /\ unit.t = 4
    /\ unit.runs = 1
    /\ unit.out = Running

(***************************************************************************)
(* C15.  Running a node whose previous run has returned, with no reset in  *)
(* between, panics and never runs the node again: once such a run has been *)
(* polled the task has panicked, for every kind of async node.             *)
(***************************************************************************)
C15_RerunPanics ==
    (variant = "unit" /\ unit.mode = "async" /\ ~unit.clean
       /\ unit.polls >= 1) =>
      unit.out = "panic"

\* The target of a Wait node.
UnitTarget(u) ==
    IF u.mode = "sync" THEN u.node.action.target ELSE u.node.target

\* What the caller has got from the node, as a status.
UnitStatus(u) ==
    IF u.mode = "sync" THEN u.out
    ELSE IF u.out = "pending" THEN Running
    ELSE IF u.out = "true" THEN Success
    ELSE IF u.out = "false" THEN Failure
    ELSE u.out

(***************************************************************************)
(* C16.  A Wait with target 0 reports Success on its very first advance,   *)
(* for any dt including 0, without panicking: on the first tick of the     *)
(* sync WaitState and on the first delta seen by the async AsyncWaitState. *)
(***************************************************************************)
C16_WaitZeroSucceeds ==
    (variant = "unit" /\ UnitKind(unit) = "Wait" /\ UnitTarget(unit) = 0
       /\ unit.t = 1 /\ unit.polls = 1) =>
      UnitStatus(unit) = Success

(***************************************************************************)
(* C17.  Wait(D) with D > 0, ticked with a constant dt > 0, counts each    *)
(* tick's dt once: after p ticks of a run it is Running while p * dt < D,  *)
(* it reports Success on the first tick p with p * dt >= D, that is on     *)
(* tick ceil(D / dt), and it never reports Failure (sync and async).       *)
(***************************************************************************)
C17_WaitCountsTicks ==
    (variant = "unit" /\ UnitKind(unit) = "Wait" /\ UnitTarget(unit) >= 1
       /\ unit.dt >= 1 /\ unit.clean /\ unit.polls >= 1) =>
      /\ unit.mode = "async" => (unit.polls - 1) * unit.dt < UnitTarget(unit)
      /\ (unit.polls - 1) * unit.dt < UnitTarget(unit) =>
            /\ UnitStatus(unit) =
                 (IF unit.polls * unit.dt >= UnitTarget(unit)
                  THEN Success ELSE Running)
            /\ UnitCell(unit) = UnitStatus(unit)

C17_Witness ==
    /\ variant = "unit"
    /\ unit.mode = "sync"
    /\ UnitKind(unit) = "Wait"
    /\ UnitTarget(unit) = 3
    /\ unit.dt = 2
    /\ unit.polls = 2
    /\ unit.out = Success

\* The status an Invert makes of its child's status.
Inverted(st) ==
    IF st = Success THEN Failure ELSE IF st = Failure THEN Success ELSE st

(***************************************************************************)
(* C18.  Invert reports Failure when its child reports Success, Success    *)
(* when its child reports Failure, and stays Running (async: its run stays *)
(* pending) while its child is still running.                              *)
(***************************************************************************)
C18_InvertMapsStatus ==
    (variant = "unit" /\ UnitKind(unit) = "Invert" /\ unit.clean
       /\ unit.polls >= 1) =>
      /\ unit.mode = "sync" =>
            /\ unit.out = Inverted(unit.node.action.current_action_status)
            /\ unit.out = (IF unit.t <= unit.node.action.current_action.spec.times
                           THEN Running
                           ELSE Inverted(unit.node.action.current_action.spec.output))
      /\ unit.mode = "async" =>
            /\ UnitStatus(unit) = Inverted(unit.node.cells[1])
            /\ UnitCell(unit) = UnitStatus(unit)
            /\ unit.out # "pending" =>
                  UnitStatus(unit) = Inverted(unit.leaves[1].output)

C18_Witness ==
    /\ variant = "unit"
    /\ unit.mode = "sync"
    /\ UnitKind(unit) = "Invert"
    /\ unit.node.action.current_action.spec = [times |-> 1, output |-> Failure]
    /\ unit.t = 2
    /\ unit.node.action.current_action_status = Failure
    /\ unit.out = Success

(***************************************************************************)
(* C19.  Async Wait, Invert, Sequence and Select: after a run has          *)
(* completed, a reset followed by a run returns the same result after the  *)
(* same number of ticks as the first run of the freshly built node.        *)
(***************************************************************************)
C19_RerunLikeFirstRun ==
    (variant = "unit" /\ unit.mode = "async"
       /\ UnitKind(unit) \in {"Wait", "Invert", "Sequence", "Select"}
       /\ unit.clean /\ unit.prev = "completed" /\ unit.first # <<>>) =>
      /\ unit.out # "panic"
      /\ unit.out = "pending" => unit.polls < unit.first.polls
      /\ unit.out # "pending" =>
            (unit.out = unit.first.out /\ unit.polls = unit.first.polls)

C19_Witness ==
    /\ variant = "unit"
    /\ unit.mode = "async"
    /\ UnitKind(unit) = "Wait"
    /\ UnitTarget(unit) = 3
    /\ unit.dt = 1
    /\ unit.runs = 2
    /\ unit.clean
    /\ unit.prev = "completed"
    /\ unit.first = [out |-> "true", polls |-> 3]
    /\ unit.polls = 3
    /\ unit.out = "true"

(***************************************************************************)
(* C20.  After a Child is reset, also when the reset follows the           *)
(* cancellation of its run, its status cell reads None (sync Child and     *)
(* AsyncChild).                                                            *)
(***************************************************************************)
C20_ResetClearsCell ==
    (variant = "unit" /\ unit.afterReset # "n/a") => unit.afterReset = None

(***************************************************************************)
(* The async driver as its controller and the executor see it.             *)
(***************************************************************************)

\* The polls a leaf's run takes (TestRunner: SuccessAfter / FailureAfter
\* { times } return with the times-th delta, the others at once).
LeafPolls(b) == IF b.times >= 1 THEN b.times ELSE 1

\* The polls a fresh run of a Sequence (stop = Failure) or Select
\* (stop = Success) of leaves takes from child i on, and its result.
RECURSIVE ControlRun(_, _, _)
ControlRun(bs, i, stop) ==
    IF bs[i].output = stop \/ i = Len(bs)
    THEN [polls |-> LeafPolls(bs[i]), out |-> bs[i].output]
    ELSE LET rest == ControlRun(bs, i + 1, stop)
         IN [polls |-> LeafPolls(bs[i]) + rest.polls, out |-> rest.out]

\* The polls a fresh run of the driver's root takes and the status it ends
\* with; polls = 0: the run never returns.
RootRun(d) ==
    LET k == d.node.kind
    IN IF k = "Action"
       THEN [polls |-> LeafPolls(d.leaves[1]), out |-> d.leaves[1].output]
       ELSE IF k = "Invert"
       THEN [polls |-> LeafPolls(d.leaves[1]),
             out |-> Inverted(d.leaves[1].output)]
       ELSE IF k = "Sequence" THEN ControlRun(d.leaves, 1, Failure)
       ELSE IF k = "Select" THEN ControlRun(d.leaves, 1, Success)
       ELSE IF k = "Wait"
       THEN IF d.node.target = 0 THEN [polls |-> 1, out |-> Success]
            ELSE IF d.dt = 0 THEN [polls |-> 0, out |-> Running]
            ELSE [polls |-> (d.node.target + d.dt - 1) \div d.dt,
                  out |-> Success]
       ELSE [polls |-> 0, out |-> Running]

\* C21: once controller.shutdown() has been called while the driver's
\* future is live, the future terminates, under either policy, whatever the
\* root is doing and whatever else is ready in the same poll.
C21_ShutdownTerminates == adrv.shut ~> (adrv.at = "done")

\* A root that never completes by itself, under ReloadOnCompletion, with a
\* reset request and the shutdown request both unseen in the poll that ended
\* the future.
C21_Witness ==
    /\ adrv.node.kind = "Loop"
    /\ adrv.policy = ReloadOnCompletion
    /\ adrv.shut
    /\ adrv.resetReq
    /\ adrv.at = "done"
    /\ adrv.ended = "ShutdownNotification"

\* C22: under RetainOnCompletion a reset requested through the controller,
\* mid-run or after completion, makes the root run again from its first
\* child: the future has not ended without the root's run having been
\* started anew since the request.
C22_ResetRunsAgain ==
    (/\ adrv.policy = RetainOnCompletion
     /\ adrv.sent > 0
     /\ adrv.at = "done") => adrv.rerun

WaitChildAt(c, i) ==
    /\ c.mode = "async"
    /\ c.root.node.kind = "Sequence"
    /\ i \in 1..Len(c.root.kids)
    /\ c.root.kids[i].node.kind = "Wait"

\* C24: when the delta source is closed while an async Wait is waiting, the
\* Wait ends without a panic and is not taken to have met its target: its
\* cell does not read Success, and the Sequence around it runs none of the
\* children after it.
C24_ClosedWaitCancels ==
    \A i \in 1..MaxChildren :
        (/\ WaitChildAt(comp, i)
         /\ comp.midWait
         /\ comp.root.kids[i].node.elapsed < comp.root.kids[i].node.target)
        => /\ comp.out # "panic"
           /\ comp.root.kids[i].node.cell # Success
           /\ \A j \in (i + 1)..Len(comp.root.kids) :
                 comp.root.kids[j].node.cell = None

(***************************************************************************)
(* C25.  The example tree Sequence[Add(10, 20) -> add, Sub(add, 20) -> sub] *)
(* under RetainOnCompletion: the first tick runs the addition and leaves   *)
(* the tree Running, the second tick runs the subtraction, which reads the *)
(* sum the first tick wrote, and leaves the tree at Success with sub = 10; *)
(* every later tick leaves Success, runs no operation and leaves the       *)
(* blackboard as it was.                                                   *)
(***************************************************************************)
ExampleOps ==
    <<OperationAdd(InputLiteral(AddLeft), InputLiteral(AddRight), "add"),
      OperationSubtract(InputBlackboard("add"), InputLiteral(SubRight), "sub")>>

C25_SimpleExample ==
    (calc.ops = ExampleOps /\ calc.policy = RetainOnCompletion)
    => /\ Len(calc.rets) >= 1
          => /\ calc.rets[1] = Running
             /\ calc.ran[1] = 1
             /\ "add" \in DOMAIN calc.bbs[1]
       /\ Len(calc.rets) >= 2
          => /\ calc.rets[2] = Success
             /\ calc.ran[2] = 2
             /\ "sub" \in DOMAIN calc.bbs[2]
             /\ calc.bbs[2]["sub"] = ExpectedSub
             /\ calc.bbs[2]["add"] = calc.bbs[1]["add"]
       /\ \A n \in 3..Len(calc.rets) :
             /\ calc.rets[n] = Success
             /\ calc.ran[n] = 0
             /\ calc.bbs[n] = calc.bbs[2]

C25_Witness ==
    /\ calc.ops = ExampleOps
    /\ calc.policy = RetainOnCompletion
    /\ calc.resets = 0
    /\ Len(calc.rets) = 3
    /\ calc.out = Success
    /\ calc.bb["sub"] = ExpectedSub

\* Scenario C: Sequence[Invert(Action(Failure)), Action(Success)]
ScenarioC ==
    SequenceOf(<<InvertOf([times |-> 0, output |-> Failure]),
                 [times |-> 0, output |-> Success]>>)

\* The status recorded for the j-th child slot of the root.
SlotStatus(c, j) ==
    IF c.mode = "sync"
    THEN IF j <= Len(c.root.self.child_states)
         THEN c.root.self.child_states[j] ELSE None
    ELSE c.root.kids[j].node.cell

(***************************************************************************)
(* C26 as stated.  Scenario C ticked once returns Success, both children   *)
(* having been evaluated in that tick.                                     *)
(***************************************************************************)
C26_OneTickSuccess ==
    (comp.behavior = ScenarioC /\ Len(comp.rets) >= 1)
    => /\ comp.rets[1] \in {Success, "true"}
       /\ SlotStatus(comp, 1) = Success
       /\ SlotStatus(comp, 2) = Success

(***************************************************************************)
(* C26, amended.  Scenario C takes two ticks: the first evaluates the      *)
(* Invert slot only (its status is Success) and returns Running, in the    *)
(* async crate leaves the run pending; the second evaluates the action and *)
(* returns Success.                                                        *)
(***************************************************************************)
C26_TwoTicksSuccess ==
    comp.behavior = ScenarioC
    => /\ Len(comp.rets) >= 1 => comp.rets[1] \in {Running, "pending"}
       /\ Len(comp.rets) = 1
          => /\ SlotStatus(comp, 1) = Success
             /\ SlotStatus(comp, 2) = None
       /\ Len(comp.rets) >= 2 => comp.rets[2] \in {Success, "true"}
       /\ Len(comp.rets) = 2
          => /\ SlotStatus(comp, 1) = Success
             /\ SlotStatus(comp, 2) = Success

C26_Witness ==
    /\ comp.behavior = ScenarioC
    /\ comp.mode = "async"
    /\ comp.rets = <<"pending", "true">>
    /\ SlotStatus(comp, 2) = Success

\* The root was constructed from a Sequence or a Select with no children.
EmptyRoot(c) ==
    /\ ~IsLeaf(c.behavior)
    /\ c.behavior.kind \in {"Sequence", "Select"}
    /\ c.behavior.children = <<>>

(***************************************************************************)
(* C27.  A Sequence or a Select constructed with no children is rejected   *)
(* by a panic of its constructor, in both crates: no such node exists to   *)
(* be ticked or polled.                                                    *)
(***************************************************************************)
C27_EmptyRejected ==
    EmptyRoot(comp)
    => /\ comp.mode = "sync" => IsPanicked(comp.root)
       /\ comp.t = 0
       /\ comp.rets = <<>>

(***************************************************************************)
(* C28.  Invert(Invert(X)) gives, tick by tick, what X gives on its own:   *)
(* Running (async: pending) as long as X, and then X's Success or Failure  *)
(* in the tick in which X ends.                                            *)
(***************************************************************************)
C28_DoubleInvert ==
    IsDoubleInvert(comp.behavior) => comp.rets = comp.innerRets

C28_Witness ==
    /\ IsDoubleInvert(comp.behavior)
    /\ ~IsLeaf(comp.behavior.child.child)
    /\ Len(comp.rets) >= 3
    /\ comp.rets[1] = Running
    /\ comp.rets[Len(comp.rets)] = Failure
    /\ comp.innerRets[Len(comp.rets)] = Failure

(***************************************************************************)
(* C29.  A sync Invert, Sequence or Select whose last tick returned        *)
(* Success or Failure and that has not been halted since: a further tick   *)
(* returns that status again and leaves the node and everything below it   *)
(* as it was, so that no child is ticked.                                  *)
(***************************************************************************)
C29_CompletedStatusCached ==
    [][(/\ comp.mode = "sync"
        /\ comp.out \in Terminal
        /\ comp'.t = comp.t + 1)
       => /\ comp'.out = comp.out
          /\ comp'.root = comp.root]_vars

C29_Witness ==
    /\ comp.mode = "sync"
    /\ comp.halts = 0
    /\ comp.behavior.kind = "Select"
    /\ Len(comp.rets) >= 3
    /\ comp.rets[Len(comp.rets) - 1] = Failure
    /\ comp.rets[Len(comp.rets)] = Failure

\* The root is a sync Sequence or Select that was constructed and has not
\* panicked, and that was halted, if ever, while its current child was
\* Running.
SyncControlRoot(c) ==
    /\ c.mode = "sync"
    /\ ~IsPanicked(c.root)
    /\ c.root.kind \in {"Sequence", "Select"}
    /\ ~c.stray

\* The root stands where the twin that was never halted stands: at the same
\* child, which has been ticked as often, with the same behaviours left and
\* the same statuses recorded for the children before it.
SamePosition(a, b) ==
    /\ Len(a.child_states) = Len(b.child_states)
    /\ a.behaviors = b.behaviors
    /\ \A j \in 1..(Len(a.child_states) - 1) :
          a.child_states[j] = b.child_states[j]
    /\ IsMock(a.current_action) = IsMock(b.current_action)
    /\ IsMock(a.current_action)
       => /\ a.current_action.spec = b.current_action.spec
          /\ a.current_action.count = b.current_action.count

\* The step is a halt of the root while its current child is Running.
HaltsRunningChild ==
    /\ SyncControlRoot(comp)
    /\ comp.root.self.current_action_status = Running
    /\ comp'.halts = comp.halts + 1

(***************************************************************************)
(* C30.  A halt of a sync Sequence or Select whose current child is        *)
(* Running halts that child once and clears the node's status and the      *)
(* child's recorded status, and keeps the position: with any halts in      *)
(* between, every tick ticks the child an unhalted twin would tick, the    *)
(* children before it are gone for good, and the ticks return what the     *)
(* twin's ticks return, up to the node's normal result.                    *)
(***************************************************************************)
C30_HaltKeepsPosition ==
    /\ [](SyncControlRoot(comp)
          => /\ comp.rets = comp.twinRets
             /\ SamePosition(comp.root.self, comp.twin.self))
    /\ [][HaltsRunningChild
          => /\ comp'.root.self.status = None
             /\ comp'.root.self.current_action_status = None
             /\ comp'.root.self.current_action.halts =
                   comp.root.self.current_action.halts + 1
             /\ comp'.root.self.current_action.count =
                   comp.root.self.current_action.count]_vars

C30_Witness ==
    /\ SyncControlRoot(comp)
    /\ comp.halts = 1
    /\ Len(comp.root.self.child_states) = 2
    /\ IsMock(comp.root.self.current_action)
    /\ comp.root.self.current_action.halts = 1
    /\ comp.root.self.current_action.spec.times >= 1
    /\ Len(comp.rets) >= 3
    /\ comp.rets[2] = Running
    /\ comp.out = Success

(***************************************************************************)
(* What the driver's caller can tell about a leaf: the status its last     *)
(* tick returned since the root was constructed or reset (None: not ticked *)
(* since).                                                                 *)
(***************************************************************************)
LeafLast(t, drv, i) ==
    IF drv = "Child"
    THEN IF i <= Len(t.state.child_states) THEN t.state.child_states[i]
         ELSE None
    ELSE IF i < t.state.index + 1 THEN Success
    ELSE IF i > t.state.index + 1 \/ t.state.current_state.count = 0 THEN None
    ELSE IF t.state.current_state.count <= t.state.current_state.spec.times
    THEN Running
    ELSE t.state.current_state.spec.output

\* The tree as the first tick of a root that has just been reset leaves it.
FreshTick ==
    BehaviorTreeTick(NewTree(driver, childSpecs), driver, policy, childSpecs,
                     kind).tree

(***************************************************************************)
(* C31.  Under any sequence of tick and reset calls on the BehaviorTree    *)
(* and under either policy, a tick that ticks the root while the root's    *)
(* last status is Success or Failure, or that ticks a leaf whose last      *)
(* status is Success or Failure, has reset the root first: it ticks the    *)
(* first leaf and leaves the tree as the first tick after a reset does.    *)
(***************************************************************************)
C31_NoTickAfterTerminal ==
    [][(variant = "tree" /\ nticks' = nticks + 1)
       => /\ (tree.status \in Terminal /\ visits' > visits)
             => /\ ticked'[1] = ticked[1] + 1
                /\ tree' = FreshTick
          /\ \A i \in 1..Len(childSpecs) :
               (ticked'[i] > ticked[i] /\ LeafLast(tree, driver, i) \in Terminal)
               => /\ i = 1
                  /\ tree' = FreshTick]_vars

C31_Witness ==
    /\ variant = "tree"
    /\ policy = ReloadOnCompletion
    /\ Len(childSpecs) >= 2
    /\ resets = 1
    /\ Len(hist) >= 3
    /\ hist[Len(hist) - 1] = Failure
    /\ hist[Len(hist)] = Running
    /\ ticked[1] >= 3
    /\ LeafLast(tree, driver, 1) \in {Running, Success}

(***************************************************************************)
(* C32.  Async WhileAll, once a guard has failed: when the node's run has  *)
(* returned false to the parent, every child that completed a run or was   *)
(* cancelled in one has been reset since and no child is left inside a     *)
(* run.                                                                    *)
(***************************************************************************)
C32_ResetBeforeFailure ==
    (variant = "whileall" /\ wa.result = "false" /\ wa.failed # 0)
    => \A b \in 1..NumBranches(wa) :
         /\ wa.br[b].ran => wa.br[b].wasReset
         /\ ~wa.br[b].node.live

(***************************************************************************)
(* The child of a Loop has completed and has not been reset since: a sync  *)
(* Wait that has reached its target, a sync Sequence with a terminal       *)
(* status; for the async Loop, the pass over the children has ended (a     *)
(* child failed or the last one returned) and the run stands at the yield  *)
(* before the reset.                                                       *)
(***************************************************************************)
LoopChildLeftDone(u) ==
    IF u.mode = "sync"
    THEN LET a == u.node.action.child.action
         IN \/ a.kind = "Wait" /\ a.elapsed >= a.target
            \/ a.kind = "Sequence" /\ a.st.status \in Terminal
    ELSE /\ u.node.live
         /\ u.node.at = "yield"
         /\ u.node.cells[u.node.index] = Failure \/ u.node.index = u.node.n

(***************************************************************************)
(* C33 as stated.  After any advance of a Loop has returned, the child is  *)
(* not left in a completed, un-reset state: the reset happens within the   *)
(* advance in which the child completed.                                   *)
(***************************************************************************)
C33_ResetSameAdvance ==
    (variant = "unit" /\ UnitKind(unit) = "Loop" /\ unit.out # "panic")
    => ~LoopChildLeftDone(unit)

(***************************************************************************)
(* C33, amended.  A Loop whose child has completed resets and restarts it  *)
(* in the next advance: the advance that follows starts the child over     *)
(* from its initial state (a Wait counts from zero, a Sequence is at the   *)
(* first tick of a new one, the async Loop runs its first child anew), and *)
(* the child is never advanced from its completed state.                   *)
(***************************************************************************)
C33_ResetNextAdvance ==
    [][(/\ variant = "unit"
        /\ UnitKind(unit) = "Loop"
        /\ unit'.t = unit.t + 1
        /\ LoopChildLeftDone(unit))
       => /\ unit'.out # "panic"
          /\ IF unit.mode = "sync"
             THEN LET a == unit.node.action.child.action
                      b == unit'.node.action.child.action
                  IN /\ a.kind = "Wait" => b.elapsed = unit.dt
                     /\ a.kind = "Sequence" =>
                          b.st = SequenceStateTick(NewState(a.bs)).self
             ELSE /\ unit'.node.index = 1
                  /\ unit'.node.pends <= 1
                  /\ unit'.node.live]_vars

C33_Witness ==
    /\ variant = "unit"
    /\ unit.mode = "sync"
    /\ UnitKind(unit) = "Loop"
    /\ unit.node.action.child.action.kind = "Wait"
    /\ unit.node.action.child.action.target = 2
    /\ unit.dt = 1
    /\ unit.runs = 1
    /\ unit.t = 3
    /\ unit.node.action.child.action.elapsed = 1
    /\ unit.node.action.child.cell = Running

(***************************************************************************)
(* C34.  AsyncChild::run and the status cell: a poll of the run leaves the *)
(* cell at Running unless the action's run returned in that poll, and then *)
(* at Success or Failure after what it returned; nothing else writes the   *)
(* cell, so it reads Running for as long as the run is in flight, the      *)
(* terminal status is written once per run, and a run that is cancelled    *)
(* leaves Running behind.                                                  *)
(***************************************************************************)
C34_CellFollowsRun ==
    /\ []((variant = "unit" /\ unit.mode = "async" /\ unit.node.live)
          => UnitCell(unit) = Running)
    /\ [][(variant = "unit" /\ unit.mode = "async")
          => /\ unit'.t = unit.t + 1
                => UnitCell(unit') = IF unit'.out = "true" THEN Success
                                     ELSE IF unit'.out = "false" THEN Failure
                                     ELSE Running
             /\ unit'.t = unit.t => UnitCell(unit') = UnitCell(unit)]_vars

C34_Witness ==
    /\ variant = "unit"
    /\ unit.mode = "async"
    /\ UnitKind(unit) = "Sequence"
    /\ unit.prev = "cancelled"
    /\ unit.runs = 2
    /\ unit.polls = 0
    /\ ~unit.node.live
    /\ UnitCell(unit) = Running
    /\ unit.t >= 2

(***************************************************************************)
(* The async WhileAll node and the async driver side by side: everything   *)
(* that resets a child whose run another future may hold.                  *)
(***************************************************************************)
InitAsyncResets == InitWhileAll \/ InitDriver

NextAsyncResets ==
    \/ NextWhileAll
    \/ NextDriver

SpecAsyncResets == InitAsyncResets /\ [][NextAsyncResets]_vars

(***************************************************************************)
(* C35.  No child is reset while a run of it is in flight: a WhileAll      *)
(* branch resets its child, and the node's parent resets the children,     *)
(* only when the child's run has returned or its future has been dropped;  *)
(* the driver resets the root only when the root's run has returned or its *)
(* future has been dropped by the select!, in every interleaving of ticks, *)
(* reset requests and shutdown requests.                                   *)
(***************************************************************************)
C35_NoResetDuringRun ==
    /\ variant = "whileall" => ~wa.raced
    /\ variant = "driver" => ~adrv.raced

C35_Witness ==
    /\ variant = "driver"
    /\ adrv.ended = "ShutdownNotification"
    /\ adrv.rootReset
    /\ adrv.sent = 0
    /\ adrv.node.kind = "Sequence"
    /\ adrv.node.cell = Running
    /\ adrv.node.index >= 1
    /\ ~adrv.node.live
    /\ ~adrv.raced

(***************************************************************************)
(* Children (behavior_interface.rs): the children of a control node and    *)
(* the cursor over them.  A child is a Child around a leaf action; its     *)
(* `resets` counts the calls of Child::reset.  `kids` holds the Children   *)
(* (node), the kind of the control node that owns them, and the numbers of *)
(* ticks and resets so far.  The control node ticks the child under the    *)
(* cursor and moves the cursor past a child that lets it go on (a Sequence *)
(* past a Success, a Select past a Failure).                               *)
(***************************************************************************)
\* Child::from(action): the status starts as None.
NewLeafChild(b) == [action |-> NewAction(b), status |-> None, resets |-> 0]

\* Child::tick
LeafChildTick(c) ==
    [c EXCEPT !.action = MockTick(c.action).action,
              !.status = MockTick(c.action).status]

\* Child::reset: the action is reset and the status cleared.
LeafChildReset(c) ==
    [action |-> NewAction(c.action.spec), status |-> None,
     resets |-> c.resets + 1]

\* Children::from(children)
ChildrenFrom(cs) == [children |-> cs, index |-> 0]

\* Children::current_child, as a position in the list (0: None)
CurrentChild(k) == IF k.index < Len(k.children) THEN k.index + 1 ELSE 0

\* Children::next
ChildrenNext(k) == [k EXCEPT !.index = @ + 1]

\* take_while(|child| child.status().is_some()): how many children it lets
\* through.
RECURSIVE TakeWhileSome(_)
TakeWhileSome(cs) ==
    IF cs = <<>> \/ Head(cs).status = None THEN 0
    ELSE 1 + TakeWhileSome(Tail(cs))

\* A reset that resets every child, ticked or not.
ChildrenResetAll(k) ==
    [children |-> [j \in 1..Len(k.children) |-> LeafChildReset(k.children[j])],
     index |-> 0]

\* Children::reset
ChildrenReset(k) ==
    [children |-> [j \in 1..Len(k.children) |->
                     IF j <= TakeWhileSome(k.children)
                     THEN LeafChildReset(k.children[j])
                     ELSE k.children[j]],
     index |-> 0]

\* The tick of the control node that owns the Children: the current child
\* is ticked, and the cursor moves on when the child lets the node go on.
ControlTick(k, knd) ==
    LET i == CurrentChild(k)
        c == LeafChildTick(k.children[i])
        ticked_k == [k EXCEPT !.children[i] = c]
    IN IF c.status = (IF knd = "Sequence" THEN Success ELSE Failure)
       THEN ChildrenNext(ticked_k)
       ELSE ticked_k

\* node.tick(dt, shared), while the node has not completed
KidsTick ==
    /\ variant = "children"
    /\ kids.nticks < MaxTicks
    /\ CurrentChild(kids.node) # 0
    /\ kids.node.children[CurrentChild(kids.node)].status \notin Terminal
    /\ kids' = [kids EXCEPT !.node = ControlTick(@, kind), !.nticks = @ + 1]
    /\ UNCHANGED <<nodeVars, treeVars, wa, unit, adrv, comp, calc>>

\* children.reset(), in any state
KidsReset ==
    /\ variant = "children"
    /\ kids.nresets <= MaxResets
    /\ kids' = [kids EXCEPT !.node = ChildrenReset(@), !.nresets = @ + 1]
    /\ UNCHANGED <<nodeVars, treeVars, wa, unit, adrv, comp, calc>>

InitChildren ==
    /\ variant = "children"
    /\ kind \in {"Sequence", "Select"}
    /\ childSpecs \in ChildLists
    /\ NoNode
    /\ ticked = <<>>
    /\ ret = None
    /\ nticks = 0
    /\ NoTree
    /\ wa = <<>>
    /\ unit = <<>>
    /\ adrv = <<>>
    /\ comp = <<>>
    /\ calc = <<>>
    /\ kids = [node |-> ChildrenFrom([j \in 1..Len(childSpecs) |->
                                        NewLeafChild(childSpecs[j])]),
               nticks |-> 0, nresets |-> 0]

NextChildren ==
    \/ KidsTick
    \/ KidsReset

SpecChildren == InitChildren /\ [][NextChildren]_vars

(***************************************************************************)
(* C36.  Children::reset: the children with a status are always a prefix   *)
(* of the list that ends at the cursor or before it; a reset calls         *)
(* Child::reset once on each of them and on no other child, so it changes  *)
(* nothing of a new or just reset node; after it the cursor is 0 and every *)
(* child's status is None.                                                 *)
(***************************************************************************)
C36_ResetsTouchedPrefix ==
    /\ [](variant = "children"
          => \A j \in 1..Len(kids.node.children) :
               kids.node.children[j].status # None
               => /\ j <= kids.node.index + 1
                  /\ \A i \in 1..j : kids.node.children[i].status # None)
    /\ [][(variant = "children" /\ kids'.nresets = kids.nresets + 1)
          => /\ kids'.node.index = 0
             /\ \A j \in 1..Len(kids.node.children) :
                  /\ kids'.node.children[j].status = None
                  /\ kids'.node.children[j].resets =
                       kids.node.children[j].resets
                       + (IF kids.node.children[j].status # None THEN 1 ELSE 0)
                  /\ kids.node.children[j].status = None
                     => kids'.node.children[j] = kids.node.children[j]]_vars

C36_Witness ==
    /\ variant = "children"
    /\ Len(kids.node.children) = 3
    /\ kids.nresets = 2
    /\ kids.node.index = 0
    /\ kids.node.children[1].resets = 2
    /\ kids.node.children[2].resets = 1
    /\ kids.node.children[3].resets = 0
    /\ kids.node.children[3].status = None

\* The sync Child was built from a WhileAll behaviour.
FromWhileAll(u) == u.mode = "sync" /\ u.leaves # <<>>

(***************************************************************************)
(* C37.  A WhileAll behaviour handed to the sync crate is compiled into a  *)
(* node: the construction does not panic and the Child holds a WhileAll    *)
(* node that can be ticked.                                                *)
(***************************************************************************)
C37_SyncWhileAllBuilt ==
    (variant = "unit" /\ FromWhileAll(unit))
    => /\ unit.out # "panic"
       /\ UnitKind(unit) = "WhileAll"

\* The nodes that guard their run with `completed`.
GuardsRun(node) == node.kind \in {"Sequence", "Select", "Invert"}

\* The node is not where a new run of it would reach `unreachable!()`.
Runnable(node) == GuardsRun(node) => (node.live \/ ~node.completed)

(***************************************************************************)
(* C38.  Under the async driver and inside WhileAll no Sequence, Select    *)
(* or Invert is run while `completed` is set: no poll ends in the          *)
(* `unreachable!()` panic, and whenever the driver's select! or a          *)
(* handle_child loop is about to start a run of its child, the child's     *)
(* `completed` is clear.  A run in flight has `completed` clear.           *)
(***************************************************************************)
C38_NoCompletedRun ==
    /\ variant = "driver"
       => /\ adrv.at # "panic"
          /\ adrv.at = "select" => Runnable(adrv.node)
          /\ (GuardsRun(adrv.node) /\ adrv.node.live) => ~adrv.node.completed
    /\ variant = "whileall"
       => /\ wa.result # "panic"
          /\ \A b \in 1..NumBranches(wa) :
               /\ wa.br[b].pc \in {"lock_run", "run"}
                  => Runnable(wa.br[b].node)
               /\ (GuardsRun(wa.br[b].node) /\ wa.br[b].node.live)
                  => ~wa.br[b].node.completed

\* The driver has reset a Sequence root whose run had completed with its
\* second child, after the controller asked for a reset, and the root's
\* next run is in flight at its first child.
C38_Witness ==
    /\ variant = "driver"
    /\ adrv.node.kind = "Sequence"
    /\ adrv.node.n = 2
    /\ adrv.policy = "ReloadOnCompletion"
    /\ adrv.rootReset
    /\ adrv.sent > 0
    /\ adrv.node.live
    /\ adrv.node.index = 1
    /\ adrv.node.cells[2] \in Terminal
    /\ adrv.at = "select"

\* Branch b of the WhileAll is inside its child's run.
InsideRun(w, b) == w.br[b].node.live

\* Branch b waits for the runner mutex.
WaitsForRunner(w, b) == \E i \in 1..Len(w.queue) : w.queue[i] = b

(***************************************************************************)
(* C39.  Inside the async WhileAll a branch that is inside its child's run *)
(* holds the runner mutex, so at most one branch is inside a run; a branch *)
(* that waits for the mutex is neither inside a run nor the holder.  While *)
(* a run stays in flight from one executor tick to the next, the mutex     *)
(* stays with its branch and no other branch's child is run or reset.      *)
(***************************************************************************)
C39_OneBranchInside ==
    /\ variant = "whileall"
       => \A b \in 1..NumBranches(wa) :
            /\ InsideRun(wa, b) => (wa.holder = b /\ wa.br[b].pc = "run")
            /\ WaitsForRunner(wa, b)
               => /\ wa.holder \notin {0, b}
                  /\ wa.br[b].pc \in {"lock_run", "lock_reset"}
                  /\ ~InsideRun(wa, b)
    /\ [][(variant = "whileall" /\ wa.result = "pending")
          => \A b \in 1..NumBranches(wa) :
               (InsideRun(wa, b) /\ InsideRun(wa', b))
               => /\ wa'.holder = b
                  /\ \A c \in (1..NumBranches(wa)) \ {b} :
                       /\ wa'.br[c].node = wa.br[c].node
                       /\ wa'.br[c].ran = wa.br[c].ran
                       /\ wa'.br[c].wasReset = wa.br[c].wasReset]_vars

\* The payload's run is in flight, pending, and holds the mutex while a
\* guard that has completed a run waits for the mutex to reset its child.
C39_Witness ==
    /\ variant = "whileall"
    /\ InsideRun(wa, wa.ng + 1)
    /\ wa.br[wa.ng + 1].node.pends >= 1
    /\ \E g \in 1..wa.ng :
         /\ WaitsForRunner(wa, g)
         /\ wa.br[g].pc = "lock_reset"
         /\ wa.br[g].ran

(***************************************************************************)
(* C40.  Once the controller has been dropped while the driver's future is *)
(* alive, the driver's future ends, under either policy, whether or not    *)
(* shutdown() was ever called and whether or not the root has completed:   *)
(* the closed channels are taken as notifications, and a future that ends  *)
(* without a call of reset() or shutdown() and without the root having     *)
(* completed has ended through the reset or the shutdown arm.              *)
(***************************************************************************)
C40_DropEndsDriver ==
    /\ [](variant = "driver" /\ adrv.dropped => <>(adrv.at = "done"))
    /\ []((variant = "driver" /\ adrv.at = "done"
           /\ adrv.ended \in {"ResetNotification", "ShutdownNotification"})
          => (adrv.dropped \/ adrv.sent > 0 \/ adrv.shut))

\* The driver has ended through the shutdown arm under ReloadOnCompletion
\* after the controller was dropped; reset() and shutdown() were never
\* called and the root's run was cut while Running.
C40_Witness ==
    /\ variant = "driver"
    /\ adrv.dropped
    /\ ~adrv.shut
    /\ adrv.sent = 0
    /\ adrv.policy = "ReloadOnCompletion"
    /\ adrv.at = "done"
    /\ adrv.ended = "ShutdownNotification"
    /\ adrv.node.cell = Running
====
